---- MODULE Spec2Model ----
(***************************************************************************)
(* Materials-request workflow engine of pto-bot-v2:                        *)
(*   app/modules/materials/service.py   (MaterialsService)                 *)
(*   app/db/repositories/materials.py   (MaterialsRepository)              *)
(*   app/db/repositories/rate_limits.py (RateLimitsRepository)             *)
(*                                                                         *)
(* The store is PostgreSQL at its default isolation level READ COMMITTED   *)
(* (container.py:75 sets none).  `requests`, `counters` and `rate_limits`  *)
(* hold the COMMITTED rows.  A transaction that has executed an UPDATE on  *)
(* a materials_requests row holds that row's lock until it commits         *)
(* (`row_lock`); its uncommitted writes are visible to nobody else and     *)
(* are applied to the committed rows in the step that commits.  Every call *)
(* of confirm / cancel is one entry of `calls`, split at the points where  *)
(* another transaction can commit in between.                              *)
(***************************************************************************)
EXTENDS Integers, FiniteSets, Sequences, TLC

\* ---------------------------------------------------------------- bounds
NumCalls  == 3      \* confirm / cancel calls issued in one behaviour
MaxDrafts == 2      \* drafts created in one behaviour
MaxTime   == 2      \* the clock runs 0..MaxTime (minutes)
DayLength == 2      \* minutes per calendar day of the scaled clock
MaxTextLines == 2   \* lines of the short texts given to the parser alone
MaxStrLen == 2      \* characters of a header string given to the mail sender

Users           == {1, 2}       \* telegram_user_id values
GroupChats      == {-100}       \* chat ids of shared (group) chats
CooldownChoices == {0, 2}       \* values of the cooldown_minutes setting

MAX_LINES      == 25            \* parser.py: lines kept of one message
MAX_TEXT_CHARS == 20000         \* parser.py: longest text that is parsed

\* A number as written: digits, an optional "," or "." and up to three
\* more digits (whole part and thousandths).
Num(whole, milli, sep) == [whole |-> whole, milli |-> milli, sep |-> sep]
NoNum == [whole |-> 0, milli |-> 0, sep |-> "absent"]

\* The quantity+unit segment _split_head_qty_unit finds in the last 1..3
\* tokens of a line: NUMBER [ - NUMBER ] UNIT; NoQty when no candidate
\* starts with a digit and matches _QTY_UNIT_RE.
Qty(left, right, unit) == [left |-> left, right |-> right, unit |-> unit]
NoQty == Qty(NoNum, NoNum, "")

\* The head of a line: "name (type)" when paren, otherwise the parts between
\* its commas, each stripped.
Head_(paren, parts) == [paren |-> paren, parts |-> parts]

\* One line of text.splitlines(): `drop` is "blank" for a line empty after
\* _normalize_raw_line, "command" for one that begins with "/", "" otherwise.
RawLine(drop, head, qty) == [drop |-> drop, head |-> head, qty |-> qty]

GoodLine == RawLine("", Head_(TRUE, <<"pipe", "st3">>), Qty(Num(0, 156, ","), NoNum, "t"))

\* A message text: its length in characters and its lines.
Text(chars, raw) == [chars |-> chars, raw |-> raw]
Texts == {Text(10, <<GoodLine>>)}
PreviewTexts ==
    Texts \cup
    {Text(10, <<>>),
     Text(10, <<RawLine("", Head_(FALSE, <<"pipe">>), NoQty)>>),
     Text(30, <<GoodLine, RawLine("", Head_(FALSE, <<"pipe">>), NoQty), GoodLine>>),
     Text(MAX_TEXT_CHARS, [i \in 1..MAX_LINES |-> GoodLine]),
     Text(MAX_TEXT_CHARS, [i \in 1..(MAX_LINES + 1) |-> GoodLine]),
     Text(MAX_TEXT_CHARS,
          [i \in 1..(MAX_LINES + 2) |->
              IF i = 2 THEN RawLine("", Head_(FALSE, <<"pipe">>), NoQty) ELSE GoodLine]),
     Text(MAX_TEXT_CHARS + 1, <<GoodLine>>)}

\* email_dispatcher.py:20  _MAX_ATTACHMENT_BYTES
MAX_ATTACHMENT_BYTES == 10 * 1024 * 1024

\* A header string is a sequence of characters: "CR" and "LF" stand for
\* "\r" and "\n", "QUOTE" for the double quote.
MailChars == {"a", "@", "CR", "LF", "QUOTE"}
MailStrings == UNION {[1..n -> MailChars] : n \in 0..MaxStrLen}
AttachmentSizes == {MAX_ATTACHMENT_BYTES, MAX_ATTACHMENT_BYTES + 1}

\* the recipient of the settings and the size of a rendered request
ValidRecipient == <<"a", "@", "a">>
RecipientChoices == {ValidRecipient, <<"a">>}
SmallAttachment == 1024

\* the lines the texts of the parser's own specification are made of
ParserLines ==
    {GoodLine,
     RawLine("", Head_(FALSE, <<"cable", "3x2", "">>), Qty(Num(100, 0, ""), NoNum, "M")),
     RawLine("", Head_(FALSE, <<"wire">>), Qty(Num(10, 0, ""), Num(12, 0, ""), "m")),
     RawLine("", Head_(FALSE, <<"wire">>), Qty(Num(12, 500, "."), Num(10, 0, ""), "m")),
     RawLine("", Head_(FALSE, <<"bolt">>), Qty(Num(0, 0, ""), NoNum, "pcs.")),
     RawLine("", Head_(FALSE, <<"bolt">>), Qty(Num(5, 0, ""), Num(0, 0, ","), "pcs")),
     RawLine("", Head_(FALSE, <<"pipe">>), NoQty),
     RawLine("", Head_(FALSE, <<"", "">>), Qty(Num(5, 0, ""), NoNum, "pcs")),
     RawLine("blank", Head_(FALSE, <<>>), NoQty),
     RawLine("command", Head_(FALSE, <<"materials">>), NoQty)}

ShortTexts ==
    {Text(40, raw) : raw \in UNION {[1..n -> ParserLines] : n \in 0..MaxTextLines}}

ParserTexts ==
    ShortTexts \cup
    {Text(MAX_TEXT_CHARS, [i \in 1..n |-> GoodLine]) : n \in {24, 25, 26, 30}} \cup
    {Text(MAX_TEXT_CHARS,
          [i \in 1..28 |->
              IF i \in {2, 27} THEN RawLine("", Head_(FALSE, <<"pipe">>), NoQty)
              ELSE GoodLine]),
     Text(MAX_TEXT_CHARS + 1, <<GoodLine, GoodLine>>)}

Procs    == 1..NumCalls
DraftIds == 1..MaxDrafts

NoChat == 0                     \* chat_id = None (private scope)
NoNumber == <<>>                \* request_number = None
NULL == "NULL"                  \* a NULL text column
NoObject == "none"              \* the Object Resolver found nothing
Objects == {"55"}               \* ps_number of the objects of the catalog

VARIABLES
    requests,           \* committed materials_requests rows, by draft_id
    counters,           \* committed materials_group_daily_counters rows
    rate_limits,        \* committed rate_limits rows of scope_type mat_chat
    row_lock,           \* draft_id -> call holding the row lock (0: free)
    cooldown_minutes,   \* the cooldown_minutes setting
    recipient_email,    \* the recipient_email setting
    now,                \* the wall clock
    calls,              \* the confirm / cancel calls
    render_calls,       \* history: fill_excel_template calls per draft
    send_calls,         \* history: send_with_attachment calls per draft
    counter_incs,       \* history: increment_daily_counter commits per draft
    mail_log,           \* history: sends the mail transport accepted
    gate_rejected,      \* history: drafts a cooldown gate has rejected
    returned,           \* history: the results returned to the requester, per draft
    ok_returns,         \* history: confirm results with ok = True per draft
    preview,            \* history: the PreviewResult build_preview returned last
    keyboard,           \* draft_id -> the preview message carries its buttons
    pure                \* the last call of a function checked on its own

store == <<requests, counters, rate_limits>>
settings == <<cooldown_minutes, recipient_email>>
work  == <<render_calls, send_calls, counter_incs, mail_log, gate_rejected>>
rets  == <<returned, ok_returns>>
hist  == <<work, rets>>
chat  == <<preview, keyboard>>
vars  == <<requests, counters, rate_limits, row_lock, settings, now,
           calls, render_calls, send_calls, counter_incs, mail_log,
           gate_rejected, returned, ok_returns, chat, pure>>

\* ------------------------------------------------------------ pure parts

\* datetime.now(_MSK).date() of the scaled clock
Date(t) == t \div DayLength

\* ConfirmResult(ok, message, keep_keyboard); a cancel call returns a str
\* (ok and keep_keyboard stay FALSE).
Result(ok, message, keep) == [ok |-> ok, message |-> message, keep_keyboard |-> keep]
NoResult == Result(FALSE, "", FALSE)

\* PreviewResult(draft_id, preview_text, hard_error); draft_id "" is 0
PreviewResult(draft_id, hard_error) == [draft_id |-> draft_id, hard_error |-> hard_error]

MSG_NOT_FOUND   == "not_found"       \* "Черновик не найден."
MSG_NO_ACCESS   == "no_access"       \* "Нет доступа к этой заявке."
MSG_START_NEW   == "start_new"       \* "... Создайте новую заявку командой /materials."
MSG_ALREADY     == "already"         \* "Уже обработано."
MSG_COOLDOWN    == "cooldown"        \* "Заявку пока нельзя отправить: cooldown активен ..."
MSG_EXCEL_FAIL  == "excel_failed"    \* "Не удалось сформировать файл заявки ..."
MSG_SMTP_FAIL   == "smtp_failed"     \* "Не удалось отправить заявку на e-mail ..."
MSG_SENT        == "sent_ok"         \* "Заявка на материалы отправлена на проверку ..."
MSG_CANCELLED   == "cancelled_ok"    \* "Заявка отменена. Ничего не отправлено."

\* a claim that does not test the status
ClaimMatches_NoStatus(row, telegram_user_id) ==
    row.telegram_user_id = telegram_user_id

\* MaterialsRepository.claim_for_sending: the WHERE clause of the UPDATE
ClaimMatches(row, telegram_user_id) ==
    /\ row.telegram_user_id = telegram_user_id
    /\ row.status = "draft"

\* a claim that does not mark the row
ClaimValues_KeepsDraft(row) == row

\* MaterialsRepository.claim_for_sending: the VALUES of the UPDATE
ClaimValues(row) == [row EXCEPT !.status = "sending"]

\* an update_status that also clears the stored recipient
update_status_ClearsRecipient(row, status, error_code, error_message) ==
    [row EXCEPT !.status = status,
                !.error_code = error_code,
                !.error_message = error_message,
                !.recipient_email = <<>>]

\* an update_status that writes the status alone
update_status_NoError(row, status, error_code, error_message) ==
    [row EXCEPT !.status = status]

\* MaterialsRepository.update_status: the VALUES of the UPDATE (error_code
\* and error_message default to None and are written every time)
update_status(row, status, error_code, error_message) ==
    [row EXCEPT !.status = status,
                !.error_code = error_code,
                !.error_message = error_message]

\* an assign_number that writes the counter alone
assign_number_CounterOnly(row, counter, request_number) ==
    [row EXCEPT !.counter = counter]

\* MaterialsRepository.assign_number: the VALUES of the UPDATE
assign_number(row, counter, request_number) ==
    [row EXCEPT !.counter = counter, !.request_number = request_number]

\* an upsert whose conflict branch does not add to the stored value
increment_daily_counter_NoAdd(tbl, key) == 1

\* MaterialsRepository.increment_daily_counter: INSERT last_counter = 1
\* ON CONFLICT DO UPDATE last_counter + 1, RETURNING last_counter
increment_daily_counter(tbl, key) ==
    IF key \in DOMAIN tbl THEN tbl[key] + 1 ELSE 1

\* f"{request_date:%y%m%d}-{ps_number or '???'}-{counter}"
RequestNumber(request_date, ps_number, counter) ==
    <<request_date, IF ps_number = "" THEN "???" ELSE ps_number, counter>>

\* a scope that is the caller in every chat
ScopeId_UserOnly(row, telegram_user_id) == telegram_user_id

\* scope_id = req.chat_id or telegram_user_id
ScopeId(row, telegram_user_id) ==
    IF row.chat_id # NoChat THEN row.chat_id ELSE telegram_user_id

\* a gate that still rejects at the end of the window
CooldownActive_Inclusive(minutes, rl, scope_id, t) ==
    /\ minutes > 0
    /\ scope_id \in DOMAIN rl
    /\ t <= rl[scope_id] + minutes

\* the cooldown gate of confirm: cooldown_minutes > 0, a rate_limits row
\* exists and _now < _last + timedelta(minutes=cooldown_minutes)
CooldownActive(minutes, rl, scope_id, t) ==
    /\ minutes > 0
    /\ scope_id \in DOMAIN rl
    /\ t < rl[scope_id] + minutes

\* MaterialsService.check_cooldown: (allowed, remaining seconds); it reads the
\* setting and the scope's rate_limits row and writes nothing
check_cooldown(minutes, rl, scope_id, t) ==
    IF minutes <= 0 THEN <<TRUE, 0>>
    ELSE IF scope_id \notin DOMAIN rl THEN <<TRUE, 0>>
    ELSE IF t < rl[scope_id] + minutes THEN <<FALSE, (rl[scope_id] + minutes - t) * 60>>
    ELSE <<TRUE, 0>>

\* service.py:268  the rollback of the claim by the cooldown gate
\* (GateRollback_Missing: a gate that returns without it)
GateRollback_Missing(row) == row

GateRollback(row) == update_status(row, "draft", NULL, NULL)

\* a cancel that lets a draft in sending through
CancelAlreadyProcessed_NoSending(status) == status \in {"sent", "cancelled"}

\* cancel: `if req.status in ("sent", "cancelled", "sending")`
CancelAlreadyProcessed(status) == status \in {"sent", "cancelled", "sending"}

\* a table with row `key` set to `val` (inserted when absent)
Put(tbl, key, val) == [k \in DOMAIN tbl \cup {key} |-> IF k = key THEN val ELSE tbl[k]]

\* a call of a function: its name, its arguments, whether it has returned
\* and what it returned
Pure(fn, arg, returned_, out) ==
    [fn |-> fn, arg |-> arg, returned |-> returned_, out |-> out]
NoPure == Pure("none", <<>>, FALSE, <<>>)

\* ------------------------------------------------------- mail sender
\* _sanitize_header: CR and LF removed
sanitize_header(value) == SelectSeq(value, LAMBDA ch : ch \notin {"CR", "LF"})

\* a file name sanitized like a header
sanitize_filename_KeepsQuote(name) == sanitize_header(name)

\* _sanitize_filename: CR and LF removed, then the double quotes
sanitize_filename(name) ==
    SelectSeq(sanitize_header(name), LAMBDA ch : ch # "QUOTE")

\* a validation that does not look at the attachment
ValidationError_NoSize(safe_to, attachment_size) ==
    IF safe_to = <<>> \/ \A i \in 1..Len(safe_to) : safe_to[i] # "@"
    THEN "invalid_recipient"
    ELSE ""

\* email_dispatcher.py:74-81  the ValueError raised before the message is
\* built ("" when none)
ValidationError(safe_to, attachment_size) ==
    IF safe_to = <<>> \/ \A i \in 1..Len(safe_to) : safe_to[i] # "@"
    THEN "invalid_recipient"
    ELSE IF attachment_size > MAX_ATTACHMENT_BYTES
    THEN "attachment_too_large"
    ELSE ""

\* what a call of send_with_attachment does: the exception it raises ("" when
\* it returns), whether aiosmtplib.send was called, and the To, Subject and
\* Content-Disposition file name of the message handed to it
SendOutcome(raised, transport_called, message) ==
    [raised |-> raised, transport_called |-> transport_called, message |-> message]
NoMessage == <<>>

\* a sender that swallows what the transport raises
send_with_attachment_Swallows(smtp_host, to_email, subject, attachment_size, attachment_filename, transport_ok) ==
    SendOutcome("", TRUE, [To |-> sanitize_header(to_email),
                           Subject |-> sanitize_header(subject),
                           filename |-> sanitize_filename(attachment_filename)])

\* MaterialsEmailDispatcher.send_with_attachment; transport_ok tells whether
\* aiosmtplib.send returns or raises
send_with_attachment(smtp_host, to_email, subject, attachment_size, attachment_filename, transport_ok) ==
    LET safe_to == sanitize_header(to_email)
        safe_subject == sanitize_header(subject)
        safe_filename == sanitize_filename(attachment_filename)
        error == ValidationError(safe_to, attachment_size)
    IN  IF ~smtp_host THEN SendOutcome("no_smtp_host", FALSE, NoMessage)
        ELSE IF error # "" THEN SendOutcome(error, FALSE, NoMessage)
        ELSE SendOutcome(IF transport_ok THEN "" ELSE "transport", TRUE,
                         [To |-> safe_to, Subject |-> safe_subject,
                          filename |-> safe_filename])

\* ----------------------------------------------------------------- calls

IdleCall ==
    [pc |-> "idle", op |-> "none", draft_id |-> 0, telegram_user_id |-> 0,
     scope_id |-> 0, at |-> 0, rl_found |-> FALSE, exc |-> ""]

\* a call that has returned or raised keeps nothing: its locals are gone
DoneCall == [IdleCall EXCEPT !.pc = "done"]
RaisedCall == [IdleCall EXCEPT !.pc = "raised"]

\* the history of results after call c has returned `result`: the results
\* handed to the requester of an existing draft are kept
Recorded(c) ==
    /\ c.draft_id \in DOMAIN requests
    /\ requests[c.draft_id].telegram_user_id = c.telegram_user_id

Return(c, result) ==
    /\ returned' =
         IF Recorded(c)
         THEN [returned EXCEPT ![c.draft_id] = @ \cup {[op |-> c.op, result |-> result]}]
         ELSE returned
    /\ ok_returns' =
         IF Recorded(c) /\ result.ok
         THEN [ok_returns EXCEPT ![c.draft_id] = @ + 1]
         ELSE ok_returns

\* a call that died with the process
CrashedCall == [IdleCall EXCEPT !.pc = "crashed"]

\* calls are numbered in the order they arrive
MayStart(p) ==
    /\ calls[p].pc = "idle"
    /\ \A q \in Procs : q < p => calls[q].pc # "idle"

InitWorkflow ==
    /\ requests = <<>>
    /\ counters = <<>>
    /\ rate_limits = <<>>
    /\ row_lock = [d \in DraftIds |-> 0]
    /\ cooldown_minutes \in CooldownChoices
    /\ now = 0
    /\ calls = [p \in Procs |-> IdleCall]
    /\ render_calls = [d \in DraftIds |-> 0]
    /\ send_calls = [d \in DraftIds |-> 0]
    /\ counter_incs = [d \in DraftIds |-> 0]
    /\ mail_log = {}
    /\ gate_rejected = {}
    /\ returned = [d \in DraftIds |-> {}]
    /\ ok_returns = [d \in DraftIds |-> 0]
    /\ preview = PreviewResult(0, "")
    /\ keyboard = [d \in DraftIds |-> FALSE]

Init ==
    /\ InitWorkflow
    /\ recipient_email = ValidRecipient
    /\ pure = NoPure

\* the clock advances
Tick ==
    /\ now < MaxTime
    /\ now' = now + 1
    /\ UNCHANGED <<store, row_lock, settings, chat, pure, calls, hist>>

\* ------------------------------------------------------- build_preview
\* ParseResult(lines, errors, skipped)
ParseResult(lines, errors, skipped) ==
    [lines |-> lines, errors |-> errors, skipped |-> skipped]

\* MaterialLine(line_no, name, type_mark, qty, unit); qty is the Decimal in
\* thousandths, type_mark the parts that ", ".join puts together
MaterialLine(line_no, name, type_mark, qty, unit) ==
    [line_no |-> line_no, name |-> name, type_mark |-> type_mark,
     qty |-> qty, unit |-> unit]

\* _to_decimal: Decimal(num.replace(",", "."))
ToDecimal(num) == num.whole * 1000 + num.milli

\* parser.py:114-117  qty = _to_decimal(qty_right or qty_left)
QtyOf(q) == IF q.right # NoNum THEN ToDecimal(q.right) ELSE ToDecimal(q.left)

\* a check that lets a quantity of zero through
QtyRejected_Never(qty) == FALSE

\* parser.py:122  if qty <= 0
QtyRejected(qty) == qty <= 0

\* the Unit Normalizer (app.modules.materials.units.normalize_unit): a
\* free-text unit token to its canonical label
normalize_unit(unit_raw) ==
    CASE unit_raw \in {"M", "m.", "metr"} -> "m"
      [] unit_raw \in {"PCS", "pcs.", "sht"} -> "pcs"
      [] unit_raw \in {"T", "t.", "tonn"} -> "t"
      [] OTHER -> unit_raw

\* parser.py:136-140  the comma-separated parts of a head that are not empty
NonEmptyParts(parts) == SelectSeq(parts, LAMBDA x : x # "")

\* parser.py:99-151  one raw line: the MaterialLine numbered line_no, or the
\* diagnostic ("" when the line is accepted)
ParseLine(raw, line_no) ==
    LET qty == QtyOf(raw.qty)
        parts == NonEmptyParts(raw.head.parts)
    IN  IF raw.qty = NoQty
        THEN [error |-> "format", line |-> <<>>]
        ELSE IF QtyRejected(qty)
        THEN [error |-> "qty_not_positive", line |-> <<>>]
        ELSE IF raw.head.paren
        THEN [error |-> "",
              line |-> MaterialLine(line_no, raw.head.parts[1], <<raw.head.parts[2]>>,
                                    qty, normalize_unit(raw.qty.unit))]
        ELSE IF parts = <<>>
        THEN [error |-> "no_name", line |-> <<>>]
        ELSE [error |-> "",
              line |-> MaterialLine(line_no, Head(parts), Tail(parts),
                                    qty, normalize_unit(raw.qty.unit))]

\* a parser that keeps every well-formed line
RECURSIVE ParseLines_NoCap(_, _, _, _)
ParseLines_NoCap(raw, parsed, errors, skipped) ==
    IF raw = <<>> THEN ParseResult(parsed, errors, skipped)
    ELSE LET r == ParseLine(Head(raw), Len(parsed) + 1)
         IN  IF r.error # ""
             THEN ParseLines_NoCap(Tail(raw), parsed, Append(errors, r.error), skipped)
             ELSE ParseLines_NoCap(Tail(raw), Append(parsed, r.line), errors, skipped)

\* a parser that numbers a line by its place in the text
RECURSIVE ParseLines_InputNo(_, _, _, _)
ParseLines_InputNo(raw, parsed, errors, skipped) ==
    IF raw = <<>> THEN ParseResult(parsed, errors, skipped)
    ELSE IF Len(parsed) >= MAX_LINES
    THEN ParseLines_InputNo(Tail(raw), parsed, errors, skipped + 1)
    ELSE LET r == ParseLine(Head(raw), Len(parsed) + Len(errors) + 1)
         IN  IF r.error # ""
             THEN ParseLines_InputNo(Tail(raw), parsed, Append(errors, r.error), skipped)
             ELSE ParseLines_InputNo(Tail(raw), Append(parsed, r.line), errors, skipped)

\* a parser that stops at the first bad line
RECURSIVE ParseLines_Aborts(_, _, _, _)
ParseLines_Aborts(raw, parsed, errors, skipped) ==
    IF raw = <<>> THEN ParseResult(parsed, errors, skipped)
    ELSE IF Len(parsed) >= MAX_LINES
    THEN ParseLines_Aborts(Tail(raw), parsed, errors, skipped + 1)
    ELSE LET r == ParseLine(Head(raw), Len(parsed) + 1)
         IN  IF r.error # ""
             THEN ParseResult(parsed, Append(errors, r.error), skipped)
             ELSE ParseLines_Aborts(Tail(raw), Append(parsed, r.line), errors, skipped)

\* a parser that drops the lines over the cap without counting them
RECURSIVE ParseLines_NoSkipCount(_, _, _, _)
ParseLines_NoSkipCount(raw, parsed, errors, skipped) ==
    IF raw = <<>> THEN ParseResult(parsed, errors, skipped)
    ELSE IF Len(parsed) >= MAX_LINES
    THEN ParseLines_NoSkipCount(Tail(raw), parsed, errors, skipped)
    ELSE LET r == ParseLine(Head(raw), Len(parsed) + 1)
         IN  IF r.error # ""
             THEN ParseLines_NoSkipCount(Tail(raw), parsed, Append(errors, r.error), skipped)
             ELSE ParseLines_NoSkipCount(Tail(raw), Append(parsed, r.line), errors, skipped)

\* parser.py:94-151  the loop of parse_materials_message over raw_lines.  A
\* line met with MAX_LINES lines parsed is counted as skipped, a rejected line
\* adds one diagnostic, an accepted one is appended with
\* line_no = len(parsed) + 1.
RECURSIVE ParseLines(_, _, _, _)
ParseLines(raw, parsed, errors, skipped) ==
    IF raw = <<>> THEN ParseResult(parsed, errors, skipped)
    ELSE IF Len(parsed) >= MAX_LINES
    THEN ParseLines(Tail(raw), parsed, errors, skipped + 1)
    ELSE LET r == ParseLine(Head(raw), Len(parsed) + 1)
         IN  IF r.error # ""
             THEN ParseLines(Tail(raw), parsed, Append(errors, r.error), skipped)
             ELSE ParseLines(Tail(raw), Append(parsed, r.line), errors, skipped)

\* parser.py:87-88  the lines that are not empty after normalization and do
\* not begin with "/"
RawLines(text) == SelectSeq(text.raw, LAMBDA ln : ln.drop = "")

\* parse_materials_message(text)
parse_materials_message(text) ==
    IF text.chars > MAX_TEXT_CHARS
    THEN ParseResult(<<>>, <<"too_long">>, 0)
    ELSE ParseLines(RawLines(text), <<>>, <<>>, 0)

\* a build_preview that persists whatever the parser returns
HardError_IgnoresLines(is_private, obj, parsed) ==
    IF is_private /\ obj = NoObject THEN "no_object" ELSE ""

\* service.py:156-175  the two hard errors of build_preview ("" when none)
HardError(is_private, obj, parsed) ==
    IF is_private /\ obj = NoObject THEN "no_object"
    ELSE IF parsed = <<>> THEN "no_lines"
    ELSE ""

\* what build_preview returns for its inputs in the current state
PreviewReturn(is_private, obj, text) ==
    LET hard_error == HardError(is_private, obj, parse_materials_message(text).lines)
    IN  IF hard_error # "" THEN PreviewResult(0, hard_error)
        ELSE PreviewResult(Cardinality(DOMAIN requests) + 1, "")

\* MaterialsService.build_preview: one transaction.  `obj` is what the
\* Object Resolver yields (objects_repo.search for a private chat,
\* list_linked_objects for a group), `text` the message text.
build_preview(chat_id, telegram_user_id, is_private, obj, text) ==
    LET draft_id == Cardinality(DOMAIN requests) + 1      \* _new_draft_id()
        ps_number == IF obj = NoObject THEN "???" ELSE obj
        parsed == parse_materials_message(text).lines
        row == [telegram_user_id |-> telegram_user_id,
                chat_id |-> IF is_private THEN NoChat ELSE chat_id,
                ps_number |-> ps_number,
                request_date |-> Date(now),
                recipient_email |-> recipient_email,     \* service.py:177
                counter |-> 0,
                request_number |-> NoNumber,
                status |-> "draft",
                error_code |-> NULL,
                error_message |-> NULL,
                lines |-> parsed]
    IN  /\ draft_id \in DraftIds
        /\ IF HardError(is_private, obj, parsed) # ""
           THEN UNCHANGED requests       \* hard error: PreviewResult("", "", ...)
           ELSE requests' = Put(requests, draft_id, row)
        /\ preview' = PreviewReturn(is_private, obj, text)
        /\ UNCHANGED <<counters, rate_limits, row_lock, settings, now,
                       calls, hist, pure>>

\* ------------------------------------------------------------- confirm
\* (RereadMessage_NoFailed: a re-read without the branch for status failed)
\* service.py:243-250  the claim updated no row: re-read and report.  What
\* makes a claim fail (no such row, another requester, a status other than
\* draft) is permanent in the committed rows, so the re-read is taken in the
\* step of the failed claim.
RereadMessage_NoFailed(draft_id, telegram_user_id) ==
    IF draft_id \notin DOMAIN requests THEN MSG_NOT_FOUND
    ELSE IF requests[draft_id].telegram_user_id # telegram_user_id THEN MSG_NO_ACCESS
    ELSE MSG_ALREADY

\* a re-read that looks at the status before the requester, as cancel does
RereadMessage_StatusFirst(draft_id, telegram_user_id) ==
    IF draft_id \notin DOMAIN requests THEN MSG_NOT_FOUND
    ELSE IF requests[draft_id].status = "failed" THEN MSG_START_NEW
    ELSE IF requests[draft_id].status # "draft" THEN MSG_ALREADY
    ELSE MSG_NO_ACCESS

RereadMessage(draft_id, telegram_user_id) ==
    IF draft_id \notin DOMAIN requests THEN MSG_NOT_FOUND
    ELSE IF requests[draft_id].telegram_user_id # telegram_user_id THEN MSG_NO_ACCESS
    ELSE IF requests[draft_id].status = "failed" THEN MSG_START_NEW
    ELSE MSG_ALREADY

\* service.py:241-253  claim_for_sending.  The UPDATE waits while another
\* transaction holds the lock of a row that matches; with a row updated the
\* transaction holds the row lock and goes on to the cooldown gate.
confirm_claim(p, draft_id, telegram_user_id) ==
    LET c == [IdleCall EXCEPT !.op = "confirm", !.draft_id = draft_id,
                              !.telegram_user_id = telegram_user_id]
    IN  /\ MayStart(p)
        /\ IF draft_id \in DOMAIN requests
              /\ ClaimMatches(requests[draft_id], telegram_user_id)
           THEN /\ row_lock[draft_id] = 0
                /\ row_lock' = [row_lock EXCEPT ![draft_id] = p]
                /\ calls' = [calls EXCEPT ![p] =
                       [c EXCEPT !.pc = "gate",
                                 !.scope_id = ScopeId(requests[draft_id],
                                                      telegram_user_id)]]
                /\ UNCHANGED rets
           ELSE /\ calls' = [calls EXCEPT ![p] = DoneCall]
                /\ Return(c, Result(FALSE,
                       RereadMessage(draft_id, telegram_user_id), FALSE))
                /\ UNCHANGED row_lock
        /\ UNCHANGED <<store, settings, preview, pure, now, work>>

\* service.py:255-277  the cooldown gate, inside the claiming transaction.
\* A rejection writes status = draft over the claimed row and commits; the
\* row lock is released.
confirm_gate(p) ==
    LET c == calls[p]
        d == c.draft_id
    IN  /\ c.pc = "gate"
        /\ IF CooldownActive(cooldown_minutes, rate_limits, c.scope_id, now)
           THEN /\ requests' = [requests EXCEPT ![d] =
                       GateRollback(ClaimValues(requests[d]))]
                /\ row_lock' = [row_lock EXCEPT ![d] = 0]
                /\ calls' = [calls EXCEPT ![p] = DoneCall]
                /\ Return(c, Result(FALSE, MSG_COOLDOWN, TRUE))
                /\ gate_rejected' = gate_rejected \cup {d}
           ELSE /\ calls' = [calls EXCEPT ![p].pc = "sequence"]
                /\ UNCHANGED <<requests, row_lock, gate_rejected, rets>>
        /\ UNCHANGED <<counters, rate_limits, settings, chat, pure, now,
                       render_calls, send_calls, counter_incs, mail_log>>

\* service.py:279-312  increment_daily_counter, assign_number, commit of the
\* claiming transaction: status = sending, the counter and the number
\* become visible together and the row lock is released.
confirm_sequence(p) ==
    LET c == calls[p]
        d == c.draft_id
        req == requests[d]
        key == <<req.request_date, c.scope_id>>
        counter == increment_daily_counter(counters, key)
        request_number == RequestNumber(req.request_date, req.ps_number, counter)
    IN  /\ c.pc = "sequence"
        /\ counters' = Put(counters, key, counter)
        /\ requests' = [requests EXCEPT ![d] =
               assign_number(ClaimValues(req), counter, request_number)]
        /\ row_lock' = [row_lock EXCEPT ![d] = 0]
        /\ calls' = [calls EXCEPT ![p].pc = "render"]
        /\ counter_incs' = [counter_incs EXCEPT ![d] = @ + 1]
        /\ UNCHANGED <<rate_limits, settings, chat, pure, now, render_calls,
                       send_calls, mail_log, gate_rejected, rets>>

\* service.py:314-316  fill_excel_template in a worker thread, no
\* transaction open; it returns the bytes or raises
confirm_render(p, ok) ==
    LET c == calls[p]
    IN  /\ c.pc = "render"
        /\ render_calls' = [render_calls EXCEPT ![c.draft_id] = @ + 1]
        /\ calls' = [calls EXCEPT ![p].pc = IF ok THEN "send" ELSE "excel_failed"]
        /\ UNCHANGED <<store, row_lock, settings, chat, pure, now, send_calls,
                       counter_incs, mail_log, gate_rejected, rets>>

\* service.py:317-321  the render raised: status = failed / EXCEL_ERROR in a
\* transaction of its own
confirm_excel_failed(p) ==
    LET c == calls[p]
        d == c.draft_id
    IN  /\ c.pc = "excel_failed"
        /\ row_lock[d] = 0
        /\ requests' = [requests EXCEPT ![d] =
               update_status(requests[d], "failed", "EXCEL_ERROR", "render_error")]
        /\ calls' = [calls EXCEPT ![p] = DoneCall]
        /\ Return(c, Result(FALSE, MSG_EXCEL_FAIL, FALSE))
        /\ UNCHANGED <<counters, rate_limits, row_lock, settings, chat, pure, now, work>>

\* service.py:323-351  send_with_attachment, no transaction open.  The
\* recipient is the one read at line 283 (neither the row's nor the setting
\* changes after it), the attachment the rendered bytes; subject and file
\* name are built from the draft.  On success `now` is taken
\* right after the call returns (line 350); an exception is kept for the
\* failure transaction.
confirm_send(p, attachment_size, transport_ok) ==
    LET c == calls[p]
        d == c.draft_id
        to_email == IF requests[d].recipient_email # <<>>
                    THEN requests[d].recipient_email
                    ELSE recipient_email
        sent == send_with_attachment(TRUE, to_email, <<"a">>, attachment_size,
                                     <<"a">>, transport_ok)
    IN  /\ c.pc = "send"
        /\ send_calls' = [send_calls EXCEPT ![d] = @ + 1]
        /\ mail_log' =
               IF sent.transport_called /\ transport_ok     \* the transport accepted
               THEN mail_log \cup {[draft_id |-> d, scope_id |-> c.scope_id, at |-> now]}
               ELSE mail_log
        /\ IF sent.raised = ""
           THEN calls' = [calls EXCEPT ![p].pc = "finalize", ![p].at = now]
           ELSE calls' = [calls EXCEPT ![p].pc = "smtp_failed",
                                       ![p].exc = sent.raised]
        /\ UNCHANGED <<store, row_lock, settings, chat, pure, now, render_calls,
                       counter_incs, gate_rejected, rets>>

\* service.py:343-348  the send raised: status = failed / SMTP_ERROR in a
\* transaction of its own
confirm_smtp_failed(p) ==
    LET c == calls[p]
        d == c.draft_id
    IN  /\ c.pc = "smtp_failed"
        /\ row_lock[d] = 0
        /\ requests' = [requests EXCEPT ![d] =
               update_status(requests[d], "failed", "SMTP_ERROR", c.exc)]
        /\ calls' = [calls EXCEPT ![p] = DoneCall]
        /\ Return(c, Result(FALSE, MSG_SMTP_FAIL, FALSE))
        /\ UNCHANGED <<counters, rate_limits, row_lock, settings, chat, pure, now, work>>

\* service.py:353-357  the final transaction: UPDATE status = sent (takes the
\* row lock); with cooldown_minutes = 0 it commits at once, otherwise
\* RateLimitsRepository.upsert first reads the scope's row (line 17)
confirm_finalize(p) ==
    LET c == calls[p]
        d == c.draft_id
    IN  /\ c.pc = "finalize"
        /\ row_lock[d] = 0
        /\ IF cooldown_minutes > 0
           THEN /\ row_lock' = [row_lock EXCEPT ![d] = p]
                /\ calls' = [calls EXCEPT ![p].pc = "upsert",
                                          ![p].rl_found = (c.scope_id \in DOMAIN rate_limits)]
                /\ UNCHANGED <<requests, rets>>
           ELSE /\ requests' = [requests EXCEPT ![d] =
                       update_status(requests[d], "sent", NULL, NULL)]
                /\ calls' = [calls EXCEPT ![p] = DoneCall]
                /\ Return(c, Result(TRUE, MSG_SENT, FALSE))
                /\ UNCHANGED row_lock
        /\ UNCHANGED <<counters, rate_limits, settings, chat, pure, now, work>>

\* rate_limits.py:18-23  the write of upsert and the commit.  The row read
\* before decides INSERT or UPDATE; an INSERT for a scope whose row another
\* transaction has committed meanwhile violates uq_rate_limits_scope: the
\* flush raises, the transaction (the status write included) is rolled back
\* and the exception leaves confirm.
UpsertConflict(rl_found, rl, scope_id) == ~rl_found /\ scope_id \in DOMAIN rl

confirm_upsert(p) ==
    LET c == calls[p]
        d == c.draft_id
    IN  /\ c.pc = "upsert"
        /\ row_lock' = [row_lock EXCEPT ![d] = 0]
        /\ IF UpsertConflict(c.rl_found, rate_limits, c.scope_id)
           THEN /\ calls' = [calls EXCEPT ![p] = RaisedCall]
                /\ UNCHANGED <<requests, rate_limits, rets>>
           ELSE /\ requests' = [requests EXCEPT ![d] =
                       update_status(requests[d], "sent", NULL, NULL)]
                /\ rate_limits' = Put(rate_limits, c.scope_id, c.at)
                /\ calls' = [calls EXCEPT ![p] = DoneCall]
                /\ Return(c, Result(TRUE, MSG_SENT, FALSE))
        /\ UNCHANGED <<counters, settings, chat, pure, now, work>>

\* -------------------------------------------------------------- cancel
\* service.py:380-386  get_by_draft_id and the checks on what it read
CancelReadMessage(draft_id, telegram_user_id) ==
    IF draft_id \notin DOMAIN requests THEN MSG_NOT_FOUND
    ELSE IF CancelAlreadyProcessed(requests[draft_id].status) THEN MSG_ALREADY
    ELSE IF requests[draft_id].telegram_user_id # telegram_user_id THEN MSG_NO_ACCESS
    ELSE ""

cancel_read(p, draft_id, telegram_user_id) ==
    LET c == [IdleCall EXCEPT !.op = "cancel", !.draft_id = draft_id,
                              !.telegram_user_id = telegram_user_id]
        msg == CancelReadMessage(draft_id, telegram_user_id)
    IN  /\ MayStart(p)
        /\ IF msg = ""
           THEN /\ calls' = [calls EXCEPT ![p] = [c EXCEPT !.pc = "cancel_write"]]
                /\ UNCHANGED rets
           ELSE /\ calls' = [calls EXCEPT ![p] = DoneCall]
                /\ Return(c, Result(FALSE, msg, FALSE))
        /\ UNCHANGED <<store, row_lock, settings, preview, pure, now, work>>

\* service.py:387-389  update_status(cancelled): an UPDATE by draft_id alone
\* (it waits for the row lock), then the commit
cancel_write(p) ==
    LET c == calls[p]
        d == c.draft_id
    IN  /\ c.pc = "cancel_write"
        /\ row_lock[d] = 0
        /\ requests' = [requests EXCEPT ![d] =
               update_status(requests[d], "cancelled", NULL, NULL)]
        /\ calls' = [calls EXCEPT ![p] = DoneCall]
        /\ Return(c, Result(FALSE, MSG_CANCELLED, FALSE))
        /\ UNCHANGED <<counters, rate_limits, row_lock, settings, chat, pure, now, work>>

\* ----------------------------------------------------------------- spec
\* a private chat has the id of its user
ChatsOf(telegram_user_id, is_private) ==
    IF is_private THEN {telegram_user_id} ELSE GroupChats

\* what the Object Resolver can yield: a search hit or nothing in a private
\* chat; the group chats of the model have no linked object
Resolved(is_private) == IF is_private THEN Objects \cup {NoObject} ELSE {NoObject}

\* the results of the Object Resolver with which a draft is created
Found(is_private) == IF is_private THEN Objects ELSE {NoObject}

\* the draft ids a caller can present: the tokens handed out with a preview
\* and one token no preview ever returned
UnknownDraft == MaxDrafts + 1
KnownIds == DOMAIN requests \cup {UnknownDraft}

Next ==
    \/ Tick
    \/ \E u \in Users, is_private \in BOOLEAN, text \in Texts :
          \E chat_id \in ChatsOf(u, is_private), obj \in Found(is_private) :
              build_preview(chat_id, u, is_private, obj, text) /\ UNCHANGED keyboard
    \/ \E p \in Procs, d \in KnownIds, u \in Users :
          confirm_claim(p, d, u) /\ UNCHANGED keyboard
    \/ \E p \in Procs : confirm_gate(p)
    \/ \E p \in Procs : confirm_sequence(p)
    \/ \E p \in Procs, ok \in BOOLEAN : confirm_render(p, ok)
    \/ \E p \in Procs : confirm_excel_failed(p)
    \/ \E p \in Procs, ok \in BOOLEAN :
          confirm_send(p, SmallAttachment, ok)
    \/ \E p \in Procs : confirm_smtp_failed(p)
    \/ \E p \in Procs : confirm_finalize(p)
    \/ \E p \in Procs : confirm_upsert(p)
    \/ \E p \in Procs, d \in KnownIds, u \in Users :
          cancel_read(p, d, u) /\ UNCHANGED keyboard
    \/ \E p \in Procs : cancel_write(p)

Spec == Init /\ [][Next]_vars

\* ------------------------------------------------------ process death
\* The process dies while calls are running: every running call is gone with
\* its locals, the database rolls back the transactions left open (what they
\* wrote was never committed) and frees their row locks.  Calls that arrive
\* afterwards are served by the restarted process.
crash ==
    /\ \E p \in Procs : calls[p].pc \notin {"idle", "done", "raised", "crashed"}
    /\ calls' = [p \in Procs |->
                    IF calls[p].pc \in {"idle", "done", "raised", "crashed"}
                    THEN calls[p] ELSE CrashedCall]
    /\ row_lock' = [d \in DraftIds |-> 0]
    /\ UNCHANGED <<store, settings, now, hist, chat, pure>>

\* no call is running
Quiet == \A p \in Procs : calls[p].pc \in {"idle", "done", "raised", "crashed"}

\* the operations with calls served one after the other, and the crash
CrashNext ==
    \/ Tick
    \/ \E u \in Users, is_private \in BOOLEAN, text \in Texts :
          \E chat_id \in ChatsOf(u, is_private), obj \in Found(is_private) :
              build_preview(chat_id, u, is_private, obj, text) /\ UNCHANGED keyboard
    \/ \E p \in Procs, d \in KnownIds, u \in Users :
          Quiet /\ confirm_claim(p, d, u) /\ UNCHANGED keyboard
    \/ \E p \in Procs : confirm_gate(p)
    \/ \E p \in Procs : confirm_sequence(p)
    \/ \E p \in Procs, ok \in BOOLEAN : confirm_render(p, ok)
    \/ \E p \in Procs : confirm_excel_failed(p)
    \/ \E p \in Procs, ok \in BOOLEAN :
          confirm_send(p, SmallAttachment, ok)
    \/ \E p \in Procs : confirm_smtp_failed(p)
    \/ \E p \in Procs : confirm_finalize(p)
    \/ \E p \in Procs : confirm_upsert(p)
    \/ \E p \in Procs, d \in KnownIds, u \in Users :
          Quiet /\ cancel_read(p, d, u) /\ UNCHANGED keyboard
    \/ \E p \in Procs : cancel_write(p)
    \/ crash

CrashSpec == Init /\ [][CrashNext]_vars

\* ------------------------------------------- the object of a private chat
\* A line as the words of ln.split(): a word that begins with a letter, a
\* single digit ("5"), a number of two digits ("55") or a number with its
\* unit attached ("5m").
Word(text) == [kind |-> "word", text |-> text, value |-> 0]
Digit(value) == [kind |-> "digit", text |-> "", value |-> value]
Number(value) == [kind |-> "number", text |-> "", value |-> value]
NumUnit(value, unit) == [kind |-> "numunit", text |-> unit, value |-> value]

\* parser.py:60-65  a candidate tail begins with a digit and matches
\* _QTY_UNIT_RE: a number followed by at least one more character (a lone
\* "5" has none, a lone "55" gives up its last digit as the unit)
TailMatches(tail) ==
    /\ tail[1].kind \in {"digit", "number", "numunit"}
    /\ Len(tail) >= 2 \/ tail[1].kind # "digit"

LastWords(words, n) == SubSeq(words, Len(words) - n + 1, Len(words))

\* parser.py:54-66  the longest of the last 3, 2, 1 tokens that is a tail
\* (0: none)
TailLength(words) ==
    IF Len(words) >= 3 /\ TailMatches(LastWords(words, 3)) THEN 3
    ELSE IF Len(words) >= 2 /\ TailMatches(LastWords(words, 2)) THEN 2
    ELSE IF Len(words) >= 1 /\ TailMatches(LastWords(words, 1)) THEN 1
    ELSE 0

\* _split_head_qty_unit and the groups of _QTY_UNIT_RE for a line of words
LexLine(words) ==
    LET n == TailLength(words)
        first == LastWords(words, n)[1]
        whole == IF n = 1 /\ first.kind = "number" THEN first.value \div 10
                 ELSE first.value
    IN  IF words = <<>> THEN RawLine("blank", Head_(FALSE, <<>>), NoQty)
        ELSE IF n = 0 THEN RawLine("", Head_(FALSE, <<>>), NoQty)
        ELSE RawLine("", Head_(FALSE, IF Len(words) = n THEN <<>> ELSE <<"name">>),
                     Qty(Num(whole, 0, "absent"), NoNum, "unit"))

\* the text made of lines of words
TextOfWords(lines) == Text(40, [i \in 1..Len(lines) |-> LexLine(lines[i])])

\* (obj, lines_text, hard_error) of _resolve_private_input; obj is the first
\* candidate of the search that hit, named by its query
Resolution(obj, lines_text, hard_error) ==
    [obj |-> obj, lines_text |-> lines_text, hard_error |-> hard_error]
NoResolution(hard_error) == Resolution(NoObject, <<>>, hard_error)

\* objects_repo.search(query): `hits` are the queries with a candidate
search(hits, query) == IF query \in hits THEN <<[found_by |-> query]>> ELSE <<>>

\* a loop that takes the longest prefix with a candidate, whatever follows it
RECURSIVE TryPrefix_NoReparse(_, _, _)
TryPrefix_NoReparse(words, hits, n) ==
    IF n <= 1 THEN NoResolution("no_object")
    ELSE IF n < Len(words) /\ search(hits, SubSeq(words, 1, n)) # <<>>
    THEN Resolution(search(hits, SubSeq(words, 1, n))[1],
                    <<SubSeq(words, n + 1, Len(words))>>, "")
    ELSE TryPrefix_NoReparse(words, hits, n - 1)

\* service.py:125-136  for n in range(max_prefix, 1, -1)
RECURSIVE TryPrefix(_, _, _)
TryPrefix(words, hits, n) ==
    LET cand == SubSeq(words, 1, n)
        rest == SubSeq(words, n + 1, Len(words))
        found == search(hits, cand)
    IN  IF n <= 1 THEN NoResolution("no_object")
        ELSE IF rest = <<>> THEN TryPrefix(words, hits, n - 1)
        ELSE IF found = <<>> THEN TryPrefix(words, hits, n - 1)
        ELSE IF parse_materials_message(TextOfWords(<<rest>>)).lines # <<>>
        THEN Resolution(found[1], <<rest>>, "")
        ELSE TryPrefix(words, hits, n - 1)

\* MaterialsService._resolve_private_input: text as its lines of words
resolve_private_input(lines, hits) ==
    LET raw == SelectSeq(lines, LAMBDA ln : ln # <<>>)
        words == raw[1]
        max_prefix == IF Len(words) - 1 < 6 THEN Len(words) - 1 ELSE 6
    IN  IF raw = <<>> THEN NoResolution("empty")
        ELSE IF Len(raw) >= 2
        THEN IF search(hits, raw[1]) = <<>> THEN NoResolution("no_object")
             ELSE Resolution(search(hits, raw[1])[1], Tail(raw), "")
        ELSE IF Len(words) < 3 THEN NoResolution("no_object")
        ELSE TryPrefix(words, hits, max_prefix)

\* The messages given to the resolution: every line of up to MaxWords words
\* on its own, some longer lines, and messages of several lines.
MaxWords == 4       \* words of the short one-line messages
Vocabulary == {Word("ps"), Number(55), Word("pipe"), NumUnit(5, "m")}
ShortLines == UNION {[1..n -> Vocabulary] : n \in 0..MaxWords}
PS55 == <<Word("ps"), Number(55)>>
PipeLine == <<Word("pipe"), NumUnit(5, "m")>>
LongLines ==
    {PS55 \o <<Word("pipe")>> \o PipeLine,
     PS55 \o <<Word("pipe"), Word("pipe")>> \o PipeLine,
     PS55 \o <<Word("a"), Word("b"), Word("c"), Word("d")>> \o PipeLine,
     PS55 \o <<Word("a"), Word("b"), Word("c"), Word("d"), Word("e")>> \o PipeLine,
     PS55 \o <<Word("a"), Word("b"), Word("c"), Word("d"), Word("e"), Word("f")>>
          \o PipeLine}
Messages ==
    {<<ln>> : ln \in ShortLines \cup LongLines}
        \cup {<<PS55, PipeLine>>, <<PS55, <<>>, PipeLine, PipeLine>>,
              <<<<>>, PS55>>, <<PS55, <<Word("pipe")>>>>, <<<<>>, <<>>>>}

\* the queries _resolve_private_input can make for a message
Queries(lines) ==
    LET raw == SelectSeq(lines, LAMBDA ln : ln # <<>>)
    IN  IF raw = <<>> THEN {}
        ELSE IF Len(raw) >= 2 THEN {raw[1]}
        ELSE {SubSeq(raw[1], 1, n) : n \in {k \in 2..6 : k <= Len(raw[1]) - 1}}

\* _resolve_private_input is called with a text; the catalog decides which
\* queries have a candidate
ResolveInit ==
    /\ InitWorkflow
    /\ recipient_email = ValidRecipient
    /\ \E lines \in Messages :
          \E hits \in SUBSET Queries(lines) :
              pure = Pure("resolve", [lines |-> lines, hits |-> hits], FALSE, <<>>)

resolve_call ==
    /\ pure.fn = "resolve"
    /\ ~pure.returned
    /\ pure' = [pure EXCEPT
                   !.returned = TRUE,
                   !.out = resolve_private_input(pure.arg.lines, pure.arg.hits)]
    /\ UNCHANGED <<store, row_lock, settings, now, calls, hist, chat>>

ResolveNext == resolve_call

ResolveSpec == ResolveInit /\ [][ResolveNext]_vars

\* ------------------------------------------------------------ handlers
\* handlers.py:63-93  on_materials_list: build_preview, then the reply with
\* the hard error or with the preview and confirm_cancel_kb(draft_id)
on_materials_list(chat_id, telegram_user_id, is_private, obj, text) ==
    /\ build_preview(chat_id, telegram_user_id, is_private, obj, text)
    /\ keyboard' = IF preview'.hard_error = ""
                   THEN [keyboard EXCEPT ![preview'.draft_id] = TRUE]
                   ELSE keyboard

\* handlers.py:102-135  on_confirm, for a press of the confirm button of
\* draft_id: edit_reply_markup(reply_markup=None) comes before
\* service.confirm and what it raises is swallowed (edit_ok = FALSE); the
\* result of confirm is replied as text, its keep_keyboard is not read.
on_confirm(p, draft_id, telegram_user_id, edit_ok) ==
    /\ keyboard[draft_id]
    /\ confirm_claim(p, draft_id, telegram_user_id)
    /\ keyboard' = IF edit_ok THEN [keyboard EXCEPT ![draft_id] = FALSE] ELSE keyboard

\* handlers.py:140-168  on_cancel, for a press of the cancel button
on_cancel(p, draft_id, telegram_user_id, edit_ok) ==
    /\ keyboard[draft_id]
    /\ cancel_read(p, draft_id, telegram_user_id)
    /\ keyboard' = IF edit_ok THEN [keyboard EXCEPT ![draft_id] = FALSE] ELSE keyboard

\* the handlers of the router, button presses handled one after the other
HandlerNext ==
    \/ Tick
    \/ \E u \in Users, is_private \in BOOLEAN, text \in Texts :
          \E chat_id \in ChatsOf(u, is_private), obj \in Found(is_private) :
              on_materials_list(chat_id, u, is_private, obj, text)
    \/ \E p \in Procs, d \in DOMAIN requests, u \in Users, edit_ok \in BOOLEAN :
          Quiet /\ on_confirm(p, d, u, edit_ok)
    \/ \E p \in Procs : confirm_gate(p)
    \/ \E p \in Procs : confirm_sequence(p)
    \/ \E p \in Procs, ok \in BOOLEAN : confirm_render(p, ok)
    \/ \E p \in Procs : confirm_excel_failed(p)
    \/ \E p \in Procs, ok \in BOOLEAN :
          confirm_send(p, SmallAttachment, ok)
    \/ \E p \in Procs : confirm_smtp_failed(p)
    \/ \E p \in Procs : confirm_finalize(p)
    \/ \E p \in Procs : confirm_upsert(p)
    \/ \E p \in Procs, d \in DOMAIN requests, u \in Users, edit_ok \in BOOLEAN :
          Quiet /\ on_cancel(p, d, u, edit_ok)
    \/ \E p \in Procs : cancel_write(p)

HandlerSpec == Init /\ [][HandlerNext]_vars

\* The same operations with the texts that exercise the line parser and one
\* confirm / cancel call at a time.
PreviewNext ==
    \/ Tick
    \/ \E u \in Users, is_private \in BOOLEAN, text \in PreviewTexts :
          \E chat_id \in ChatsOf(u, is_private), obj \in Resolved(is_private) :
              build_preview(chat_id, u, is_private, obj, text) /\ UNCHANGED keyboard
    \/ \E d \in KnownIds, u \in Users : confirm_claim(1, d, u) /\ UNCHANGED keyboard
    \/ confirm_gate(1)
    \/ confirm_sequence(1)
    \/ \E ok \in BOOLEAN : confirm_render(1, ok)
    \/ confirm_excel_failed(1)
    \/ \E attachment_size \in AttachmentSizes, ok \in BOOLEAN :
          confirm_send(1, attachment_size, ok)
    \/ confirm_smtp_failed(1)
    \/ confirm_finalize(1)
    \/ confirm_upsert(1)
    \/ \E d \in KnownIds, u \in Users : cancel_read(1, d, u) /\ UNCHANGED keyboard
    \/ cancel_write(1)

\* the recipient_email setting may hold an address without "@"
PreviewInit ==
    /\ InitWorkflow
    /\ recipient_email \in RecipientChoices
    /\ pure = NoPure

PreviewSpec == PreviewInit /\ [][PreviewNext]_vars

\* ------------------------------------------------- the parser on its own
\* parse_materials_message is called with a text and returns
ParserInit ==
    /\ InitWorkflow
    /\ recipient_email = ValidRecipient
    /\ \E text \in ParserTexts : pure = Pure("parse", text, FALSE, <<>>)

parse_call ==
    /\ pure.fn = "parse"
    /\ ~pure.returned
    /\ pure' = [pure EXCEPT !.returned = TRUE,
                            !.out = parse_materials_message(pure.arg)]
    /\ UNCHANGED <<store, row_lock, settings, now, calls, hist, chat>>

ParserNext == parse_call

ParserSpec == ParserInit /\ [][ParserNext]_vars

\* -------------------------------------------- the mail sender on its own
\* send_with_attachment is called with its arguments and returns or raises
MailInit ==
    /\ InitWorkflow
    /\ recipient_email = ValidRecipient
    /\ \E to_email \in MailStrings, subject \in MailStrings,
          attachment_filename \in MailStrings, attachment_size \in AttachmentSizes,
          smtp_host \in BOOLEAN, transport_ok \in BOOLEAN :
          pure = Pure("send",
                      [smtp_host |-> smtp_host, to_email |-> to_email,
                       subject |-> subject, attachment_size |-> attachment_size,
                       attachment_filename |-> attachment_filename,
                       transport_ok |-> transport_ok],
                      FALSE, <<>>)

send_call ==
    /\ pure.fn = "send"
    /\ ~pure.returned
    /\ pure' = [pure EXCEPT
                   !.returned = TRUE,
                   !.out = send_with_attachment(
                               pure.arg.smtp_host, pure.arg.to_email, pure.arg.subject,
                               pure.arg.attachment_size, pure.arg.attachment_filename,
                               pure.arg.transport_ok)]
    /\ UNCHANGED <<store, row_lock, settings, now, calls, hist, chat>>

MailNext == send_call

MailSpec == MailInit /\ [][MailNext]_vars

\* ------------------------------------------------ the Excel generator
\* excel.py:18-27 (MAX_LINES of excel.py:20 is the parser's 25 again)
ITEMS_START_ROW == 12
ITEMS_END_ROW == 36
COL_A == 1
COL_B == 2
COL_C == 3
COL_E == 5
COL_F == 6

\* The item cells of the worksheet.  A cell holds None (NULL), a string or a
\* number; a number is an int or a decimal, kept in thousandths.
ItemCols == {COL_A, COL_B, COL_C, COL_E, COL_F}
ItemCells == (ITEMS_START_ROW..ITEMS_END_ROW) \X ItemCols
IntCell(n) == [type |-> "int", value |-> n]
DecimalCell(thousandths) == [type |-> "decimal", value |-> thousandths]

\* template_materials.xlsx: the item cells of the loaded workbook, empty or
\* holding values left in the template; none of them is the slave of a
\* merged region (the layout merges C with D, which is never written)
Template(stale) == [cell \in ItemCells |-> IF stale THEN "stale" ELSE NULL]
IsMergedCell(row, col) == col = 4

\* _set_col on the cell (row, col) holding `old`: what the cell holds after
\* it; a MergedCell slave is skipped
set_col(old, row, col, value) ==
    IF IsMergedCell(row, col) THEN old ELSE value

\* _clear_items: None into A, B, C, E, F of the rows 12..36
clear_items(ws) ==
    [cell \in DOMAIN ws |->
        IF cell[1] \in ITEMS_START_ROW..ITEMS_END_ROW /\ cell[2] \in ItemCols
        THEN set_col(ws[cell], cell[1], cell[2], NULL)
        ELSE ws[cell]]

\* a quantity always written as it is
format_qty_Raw(qty) == DecimalCell(qty)

\* _format_qty: int(qty) when qty == int(qty), else qty itself
format_qty(qty) ==
    IF qty % 1000 = 0 THEN IntCell(qty \div 1000) ELSE DecimalCell(qty)

\* a row counted from the first item row without the - 1
ItemRow_OffByOne(line_no) == ITEMS_START_ROW + line_no

\* excel.py:89  row = ITEMS_START_ROW + line.line_no - 1
ItemRow(line_no) == ITEMS_START_ROW + line_no - 1

\* excel.py:90-94  the five cells of one line (the sheet of the model has
\* the item rows only)
WriteLine(ws, line) ==
    LET row == ItemRow(line.line_no)
    IN  IF row \notin ITEMS_START_ROW..ITEMS_END_ROW THEN ws
        ELSE [ws EXCEPT
                ![<<row, COL_A>>] = set_col(@, row, COL_A, IntCell(line.line_no)),
                ![<<row, COL_B>>] = set_col(@, row, COL_B, line.name),
                ![<<row, COL_C>>] = set_col(@, row, COL_C, line.type_mark),
                ![<<row, COL_E>>] = set_col(@, row, COL_E, line.unit),
                ![<<row, COL_F>>] = set_col(@, row, COL_F, format_qty(line.qty))]

\* excel.py:80-94  the loop over draft.lines, left at the first line_no
\* above MAX_LINES
RECURSIVE FillLines(_, _, _)
FillLines(ws, lines, i) ==
    IF i > Len(lines) THEN ws
    ELSE IF lines[i].line_no > MAX_LINES THEN ws
    ELSE FillLines(WriteLine(ws, lines[i]), lines, i + 1)

\* what fill_excel_template does: the exception it raises ("" when it
\* returns) and the item cells of the saved workbook
Rendered(raised, ws) == [raised |-> raised, ws |-> ws]

\* fill_excel_template, its item rows
fill_excel_template(template_exists, stale, lines) ==
    IF ~template_exists THEN Rendered("FileNotFoundError", <<>>)
    ELSE IF lines = <<>> THEN Rendered("ValueError", <<>>)
    ELSE Rendered("", FillLines(clear_items(Template(stale)), lines, 1))

\* The lines of the drafts given to the generator: what the parser stores,
\* numbered 1..N.
MaxDraftLines == 2      \* lines of the short drafts given to the generator
LineKinds ==
    {[name |-> "pipe", type_mark |-> <<"st3">>, qty |-> 156, unit |-> "t"],
     [name |-> "pipe", type_mark |-> <<>>, qty |-> 12000, unit |-> "m"],
     [name |-> "cable", type_mark |-> <<"3x2.5">>, qty |-> 12500, unit |-> "m"],
     [name |-> "bolt", type_mark |-> <<"M12", "zinc">>, qty |-> 1000, unit |-> "pcs"]}
NumberedLines(kinds) ==
    [i \in 1..Len(kinds) |->
        MaterialLine(i, kinds[i].name, kinds[i].type_mark, kinds[i].qty,
                     kinds[i].unit)]
LongDraft(n) ==
    [i \in 1..n |->
        MaterialLine(i, "pipe", <<"st3">>, IF i % 2 = 0 THEN i * 1000 ELSE i * 1000 + 500, "m")]
DraftLines ==
    {NumberedLines(kinds) : kinds \in UNION {[1..n -> LineKinds] : n \in 0..MaxDraftLines}}
        \cup {LongDraft(MAX_LINES - 1), LongDraft(MAX_LINES), LongDraft(MAX_LINES + 1)}

\* fill_excel_template is called with a draft and returns or raises
ExcelInit ==
    /\ InitWorkflow
    /\ recipient_email = ValidRecipient
    /\ \E lines \in DraftLines, template_exists \in BOOLEAN, stale \in BOOLEAN :
          pure = Pure("render",
                      [lines |-> lines, template_exists |-> template_exists,
                       stale |-> stale],
                      FALSE, <<>>)

render_call ==
    /\ pure.fn = "render"
    /\ ~pure.returned
    /\ pure' = [pure EXCEPT
                   !.returned = TRUE,
                   !.out = fill_excel_template(pure.arg.template_exists,
                                               pure.arg.stale, pure.arg.lines)]
    /\ UNCHANGED <<store, row_lock, settings, now, calls, hist, chat>>

ExcelNext == render_call

ExcelSpec == ExcelInit /\ [][ExcelNext]_vars

\* ------------------------------------------- a quantity from text to cell
\* A NUMBER as _QTY_UNIT_RE takes it, [0-9]+(?:[.,][0-9]+)?: the digits
\* before the separator as their value, the digits after it one by one.
MaxFracDigits == 4      \* digits after the separator in the numbers entered
WholeChoices == {0, 1, 12}
FracDigitChoices == {0, 5, 6}
NumberLiteral(whole, frac, sep) == [whole |-> whole, frac |-> frac, sep |-> sep]
NumberLiterals ==
    {NumberLiteral(w, <<>>, "absent") : w \in WholeChoices} \cup
    {NumberLiteral(w, f, sep) :
        w \in WholeChoices \cup {1000000000},
        f \in UNION {[1..n -> FracDigitChoices] : n \in 1..MaxFracDigits},
        sep \in {".", ","}}

\* a Decimal: every digit of the text is kept
Decimal(whole, frac) == [whole |-> whole, frac |-> frac]

\* parser.py _to_decimal: Decimal(num.replace(",", "."))
to_decimal(num) == Decimal(num.whole, num.frac)

\* parser.py:122  if qty <= 0
IsPositive(d) == d.whole > 0 \/ \E i \in 1..Len(d.frac) : d.frac[i] # 0

\* schemas.py:22  "qty": str(self.qty)
DecimalStr(d) ==
    [int |-> d.whole, point |-> d.frac # <<>>, frac |-> d.frac]

\* materials.py:57  Decimal(str(line["qty"]))
DecimalOfStr(str) == Decimal(str.int, IF str.point THEN str.frac ELSE <<>>)

\* the first three digits after the point as thousandths
Milli(frac) ==
    LET digit(i) == IF i <= Len(frac) THEN frac[i] ELSE 0
    IN  100 * digit(1) + 10 * digit(2) + digit(3)

\* the qty column, Numeric(precision=12, scale=3): the value is rounded to
\* three digits after the point (half away from zero) and the INSERT fails
\* when more than nine digits remain before it
NumericOverflow == 1000000000
StoredQty(raised, whole, milli) == [raised |-> raised, whole |-> whole, milli |-> milli]
Numeric_12_3(d) ==
    LET up == Len(d.frac) > 3 /\ d.frac[4] >= 5
        m == Milli(d.frac) + (IF up THEN 1 ELSE 0)
        whole == IF m = 1000 THEN d.whole + 1 ELSE d.whole
    IN  IF whole >= NumericOverflow THEN StoredQty(TRUE, 0, 0)
        ELSE StoredQty(FALSE, whole, m % 1000)

\* materials.py:50-62  the item's qty as create_request leaves it in the row
create_item_qty(qty_str) == Numeric_12_3(DecimalOfStr(qty_str))

\* a number is entered, parsed and, if accepted, stored with the draft
QtyInit ==
    /\ InitWorkflow
    /\ recipient_email = ValidRecipient
    /\ \E num \in NumberLiterals : pure = Pure("qty", num, FALSE, <<>>)

\* build_preview: parse_materials_message, ln.to_dict(), create_request
store_qty ==
    /\ pure.fn = "qty"
    /\ ~pure.returned
    /\ IsPositive(to_decimal(pure.arg))
    /\ pure' = [pure EXCEPT
                   !.returned = TRUE,
                   !.out = [qty |-> to_decimal(pure.arg),
                            stored |-> create_item_qty(DecimalStr(to_decimal(pure.arg))),
                            cell |-> <<>>]]
    /\ UNCHANGED <<store, row_lock, settings, now, calls, hist, chat>>

\* confirm: the stored qty goes through _format_qty into column E
render_qty ==
    /\ pure.fn = "qty"
    /\ pure.returned
    /\ ~pure.out.stored.raised
    /\ pure.out.cell = <<>>
    /\ pure' = [pure EXCEPT
                   !.out.cell = format_qty(pure.out.stored.whole * 1000
                                               + pure.out.stored.milli)]
    /\ UNCHANGED <<store, row_lock, settings, now, calls, hist, chat>>

QtyNext == store_qty \/ render_qty

QtySpec == QtyInit /\ [][QtyNext]_vars

\* ------------------------------------------------------------ properties
Exists(d) == d \in DOMAIN requests

\* the scope of a draft: the chat of a shared context, the requester otherwise
Scope(d) == ScopeId(requests[d], requests[d].telegram_user_id)

\* the DailyCounter key of a draft
DraftKey(d) == <<requests[d].request_date, Scope(d)>>

\* the calls still running on draft d
InFlight(d) == {p \in Procs : calls[p].pc \notin {"idle", "done", "raised"}
                              /\ calls[p].draft_id = d}

ResSent      == Result(TRUE, MSG_SENT, FALSE)
ResAlready   == Result(FALSE, MSG_ALREADY, FALSE)
ResCooldown  == Result(FALSE, MSG_COOLDOWN, TRUE)
ResExcelFail == Result(FALSE, MSG_EXCEL_FAIL, FALSE)
ResSmtpFail  == Result(FALSE, MSG_SMTP_FAIL, FALSE)
ResCancelled == Result(FALSE, MSG_CANCELLED, FALSE)

Confirmed(res) == [op |-> "confirm", result |-> res]
Cancelled(res) == [op |-> "cancel", result |-> res]

\* C1: for every draft, over all confirm calls on it in any interleaving,
\* fill_excel_template is called at most once and send_with_attachment is
\* called at most once.
C1_AtMostOneAttempt ==
    \A d \in DraftIds : render_calls[d] <= 1 /\ send_calls[d] <= 1

\* a draft rendered and sent once although a second confirm of its requester
\* has come back "already processed"
C1_Witness ==
    \E d \in DOMAIN requests :
        /\ render_calls[d] = 1 /\ send_calls[d] = 1
        /\ Confirmed(ResAlready) \in returned[d]

\* C2: the scenario of the claim for draft d: no cancel by the requester, no
\* rejection by the cooldown gate, render and dispatch not failing, and no
\* other draft of the scope being processed.
C2_Scenario(d) ==
    /\ Exists(d)
    /\ d \notin gate_rejected
    /\ Cancelled(ResCancelled) \notin returned[d]
    /\ \A p \in InFlight(d) :
           calls[p].op = "confirm" /\ calls[p].pc \notin {"excel_failed", "smtp_failed"}
    /\ Confirmed(ResExcelFail) \notin returned[d]
    /\ Confirmed(ResSmtpFail) \notin returned[d]
    /\ \A e \in DOMAIN requests : e # d /\ Scope(e) = Scope(d) => counter_incs[e] = 0

\* C2: when confirm calls of the requester run concurrently on one draft
\* (cooldown inactive, render and dispatch succeeding), at most one returns
\* ok = True, every other returns ok = False "already processed", the draft is
\* sent once the winner has returned, and once all of them have returned
\* exactly one has returned ok = True.
C2_ExactlyOneWinner ==
    \A d \in DraftIds : C2_Scenario(d) =>
        /\ ok_returns[d] <= 1
        /\ \A r \in returned[d] : r.result \in {ResSent, ResAlready}
        /\ ok_returns[d] = 1 => requests[d].status = "sent"
        /\ (InFlight(d) = {} /\ returned[d] # {}) =>
               (ok_returns[d] = 1 /\ Confirmed(ResSent) \in returned[d])

\* both confirms have returned: one ok, one "already processed", draft sent
C2_Witness ==
    \E d \in DraftIds :
        /\ C2_Scenario(d) /\ InFlight(d) = {}
        /\ ok_returns[d] = 1
        /\ returned[d] = {Confirmed(ResSent), Confirmed(ResAlready)}
        /\ requests[d].status = "sent"

\* C3: the DailyCounter is incremented at most once on behalf of a draft, and
\* the counter of every key equals the number of drafts of that key that
\* were sequenced (so concurrent confirms on one draft raise it by 1).
C3_SequencedOnce ==
    /\ \A d \in DraftIds : counter_incs[d] <= 1
    /\ \A d \in DOMAIN requests : counter_incs[d] >= 1 => DraftKey(d) \in DOMAIN counters
    /\ \A key \in DOMAIN counters :
           counters[key] = Cardinality({d \in DOMAIN requests :
                                          DraftKey(d) = key /\ counter_incs[d] >= 1})

\* a draft confirmed twice by its requester whose key's counter stands at 1
C3_Witness ==
    \E d \in DOMAIN requests :
        /\ counter_incs[d] = 1
        /\ counters[DraftKey(d)] = 1
        /\ {Confirmed(ResSent), Confirmed(ResAlready)} \subseteq returned[d]

\* C4: every change of a draft's committed status is one of the legal
\* transitions; sent and cancelled are final.
LegalTransitions ==
    {<<"draft", "sending">>, <<"sending", "sent">>, <<"sending", "draft">>,
     <<"sending", "failed">>, <<"draft", "cancelled">>}

C4_LegalTransitionsOnly ==
    [][\A d \in DOMAIN requests :
          requests'[d].status # requests[d].status =>
              <<requests[d].status, requests'[d].status>> \in LegalTransitions]_vars

\* C5: a step of a cancel call changes the store only when the draft is in
\* status draft and the caller is its requester, and then sets cancelled.
C5_CancelOnlyDraftByRequester ==
    [][\A p \in Procs :
          (calls[p].op = "cancel" /\ calls'[p] # calls[p] /\ store' # store) =>
              /\ requests[calls[p].draft_id].status = "draft"
              /\ requests[calls[p].draft_id].telegram_user_id = calls[p].telegram_user_id
              /\ requests'[calls[p].draft_id].status = "cancelled"]_vars

\* C6: a draft for which cancel has returned "cancelled, nothing sent" was
\* never sequenced, is never sent by e-mail and is never in status sent.
C6_CancelledNeverSent ==
    \A d \in DOMAIN requests :
        Cancelled(ResCancelled) \in returned[d] =>
            /\ requests[d].status # "sent"
            /\ counter_incs[d] = 0
            /\ \A m \in mail_log : m.draft_id # d

\* C7: with a cooldown of M > 0 minutes, two drafts of one scope are never
\* both accepted by the mail transport within M minutes of each other.
C7_CooldownHonored ==
    cooldown_minutes > 0 =>
        \A m1 \in mail_log, m2 \in mail_log :
            (m1.draft_id # m2.draft_id /\ m1.scope_id = m2.scope_id /\ m1.at <= m2.at)
                => m2.at - m1.at >= cooldown_minutes

\* C8: a confirm that finds the cooldown active returns ok = False with the
\* keyboard kept and leaves the draft committed in status draft with its row
\* lock free; and a confirm that has claimed a draft rejected earlier and
\* reaches the final transaction commits status sent and returns ok = True.
C8_Rejection(p) ==
    LET c == calls[p]
        d == c.draft_id
    IN  (/\ c.pc = "gate"
         /\ cooldown_minutes > 0
         /\ c.scope_id \in DOMAIN rate_limits
         /\ now < rate_limits[c.scope_id] + cooldown_minutes
         /\ calls'[p] # c)
        => /\ calls'[p].pc = "done"
           /\ requests'[d].status = "draft"
           /\ row_lock'[d] = 0
           /\ Confirmed(ResCooldown) \in returned'[d]
           /\ ok_returns' = ok_returns

C8_LaterConfirm(p) ==
    LET c == calls[p]
        d == c.draft_id
    IN  (/\ c.pc \in {"finalize", "upsert"}
         /\ d \in gate_rejected
         /\ calls'[p] # c)
        => /\ calls'[p].pc \in {"upsert", "done"}
           /\ calls'[p].pc = "done" =>
                  /\ requests'[d].status = "sent"
                  /\ Confirmed(ResSent) \in returned'[d]
                  /\ ok_returns'[d] = ok_returns[d] + 1

C8_CooldownRollback ==
    [][\A p \in Procs : C8_Rejection(p) /\ C8_LaterConfirm(p)]_vars

\* a draft the gate rejected that a later confirm has sent
C8_Witness ==
    \E d \in gate_rejected :
        /\ requests[d].status = "sent"
        /\ {Confirmed(ResCooldown), Confirmed(ResSent)} \subseteq returned[d]

\* C9: the step in which the cooldown gate rejects a confirm changes no
\* DailyCounter and commits the draft with sequence_counter = 0 and no
\* request_number; a DailyCounter changes only in the step of a confirm that
\* goes on to render.
C9_RejectionConsumesNoNumber ==
    [][/\ \A p \in Procs :
             (calls[p].pc = "gate" /\ calls'[p].pc = "done") =>
                 /\ counters' = counters
                 /\ counter_incs' = counter_incs
                 /\ requests'[calls[p].draft_id].counter = 0
                 /\ requests'[calls[p].draft_id].request_number = NoNumber
       /\ counters' # counters =>
             \E p \in Procs : calls[p].pc = "sequence" /\ calls'[p].pc = "render"]_vars

\* a rejected draft, still unnumbered, next to a numbered draft of its scope
C9_Witness ==
    \E d \in gate_rejected :
        /\ requests[d].status = "draft"
        /\ requests[d].counter = 0
        /\ counter_incs[d] = 0
        /\ DraftKey(d) \in DOMAIN counters

\* C10: the step that follows a failed render or a failed send commits status
\* failed with error code EXCEL_ERROR resp. SMTP_ERROR and an error message,
\* and the confirm returns ok = False.
C10_Failure(p, at_pc, code, res) ==
    LET c == calls[p]
        d == c.draft_id
    IN  (c.pc = at_pc /\ calls'[p] # c)
        => /\ calls'[p].pc = "done"
           /\ requests'[d].status = "failed"
           /\ requests'[d].error_code = code
           /\ requests'[d].error_message \notin {NULL, ""}
           /\ Confirmed(res) \in returned'[d]
           /\ ~res.ok /\ ok_returns' = ok_returns

C10_FailureRecorded ==
    [][\A p \in Procs :
          /\ C10_Failure(p, "excel_failed", "EXCEL_ERROR", ResExcelFail)
          /\ C10_Failure(p, "smtp_failed", "SMTP_ERROR", ResSmtpFail)]_vars

\* a draft committed as failed by a confirm whose send raised
C10_Witness ==
    \E d \in DOMAIN requests :
        /\ requests[d].status = "failed"
        /\ requests[d].error_code = "SMTP_ERROR"
        /\ Confirmed(ResSmtpFail) \in returned[d]

ResStartNew == Result(FALSE, MSG_START_NEW, FALSE)

\* C11: a confirm of the requester on a draft in status failed returns
\* ok = False with the "start a new request" message, calls neither the
\* renderer nor the mail transport and leaves the store as it is; and no step
\* moves a draft from failed to draft or sending.
C11_FailedIsTerminal ==
    [][/\ \A p \in Procs, d \in DOMAIN requests :
             (/\ requests[d].status = "failed"
              /\ confirm_claim(p, d, requests[d].telegram_user_id))
             => /\ calls'[p].pc = "done"
                /\ Confirmed(ResStartNew) \in returned'[d]
                /\ ok_returns' = ok_returns
                /\ render_calls' = render_calls
                /\ send_calls' = send_calls
                /\ mail_log' = mail_log
                /\ store' = store
       /\ \A d \in DOMAIN requests :
             requests[d].status = "failed" =>
                 requests'[d].status \notin {"draft", "sending"}]_vars

\* a failed draft whose requester confirmed again: still failed, one send
C11_Witness ==
    \E d \in DOMAIN requests :
        /\ requests[d].status = "failed"
        /\ Confirmed(ResStartNew) \in returned[d]
        /\ send_calls[d] = 1

\* C12: for every (request_date, scope) key the numbers of its drafts are
\* pairwise distinct and are exactly 1..last_counter; a draft sequenced later
\* gets a number larger than every number of its key; last_counter never
\* decreases and no DailyCounter row disappears.
Numbered(key) ==
    {d \in DOMAIN requests : DraftKey(d) = key /\ requests[d].counter # 0}

C12_Numbers ==
    /\ \A d \in DOMAIN requests :
           requests[d].counter # 0 => DraftKey(d) \in DOMAIN counters
    /\ \A key \in DOMAIN counters :
           /\ {requests[d].counter : d \in Numbered(key)} = 1..counters[key]
           /\ \A d \in Numbered(key), e \in Numbered(key) :
                  d # e => requests[d].counter # requests[e].counter

C12_Step ==
    /\ \A key \in DOMAIN counters :
           key \in DOMAIN counters' /\ counters'[key] >= counters[key]
    /\ \A d \in DOMAIN requests :
           requests'[d].counter # requests[d].counter =>
               \A e \in Numbered(DraftKey(d)) :
                   requests'[d].counter > requests[e].counter

C12_GapFreeNumbers == [](C12_Numbers) /\ [][C12_Step]_vars

\* two drafts of one key numbered 1 and 2
C12_Witness ==
    \E key \in DOMAIN counters :
        /\ counters[key] = 2
        /\ Cardinality(Numbered(key)) = 2

\* C13: the row a build_preview step persists has status draft, counter 0, no
\* request_number and between 1 and 25 lines numbered 1..N; the step changes
\* no other draft, no DailyCounter and no CooldownEntry; a draft that was
\* never sequenced carries no number.
C13_NewDraft(d) ==
    /\ requests'[d].status = "draft"
    /\ requests'[d].counter = 0
    /\ requests'[d].request_number = NoNumber
    /\ Len(requests'[d].lines) >= 1
    /\ Len(requests'[d].lines) <= 25
    /\ \A i \in 1..Len(requests'[d].lines) : requests'[d].lines[i].line_no = i
    /\ counters' = counters
    /\ rate_limits' = rate_limits
    /\ \A e \in DOMAIN requests : requests'[e] = requests[e]

C13_DraftStartsClean ==
    /\ [](\A d \in DOMAIN requests : counter_incs[d] = 0 => requests[d].counter = 0)
    /\ [][\A d \in DOMAIN requests' \ DOMAIN requests : C13_NewDraft(d)]_vars

\* a draft of 25 lines created from a longer text while a DailyCounter exists
C13_Witness ==
    \E d \in DOMAIN requests :
        /\ Len(requests[d].lines) = 25
        /\ requests[d].status = "draft"
        /\ requests[d].counter = 0
        /\ DOMAIN counters # {}

\* C14: a build_preview whose object cannot be resolved in a private chat, or
\* whose text is over the size cap or has no well-formed line, returns an
\* empty draft_id with a hard error and leaves every table as it was.
C14_HardInput(is_private, obj, text) ==
    \/ is_private /\ obj = NoObject
    \/ text.chars > 20000
    \/ \A i \in 1..Len(text.raw) : text.raw[i].qty = NoQty

C14_HardErrorCreatesNothing ==
    [][\A u \in Users, is_private \in BOOLEAN, text \in PreviewTexts :
          \A chat_id \in ChatsOf(u, is_private), obj \in Resolved(is_private) :
              (/\ C14_HardInput(is_private, obj, text)
               /\ build_preview(chat_id, u, is_private, obj, text))
              => /\ preview'.draft_id = 0
                 /\ preview'.hard_error # ""
                 /\ store' = store]_vars

\* a preview refused for its lines after a draft had been created
C14_Witness ==
    /\ preview = PreviewResult(0, "no_lines")
    /\ Cardinality(DOMAIN requests) = 1

\* C15: a rate_limits row is created or updated only in the step in which a
\* confirm whose send succeeded commits status sent, and only the row of that
\* draft's scope (its chat, or its requester in a private chat).
C15_Upserts(p) ==
    LET d == calls[p].draft_id
        scope == IF requests[d].chat_id # NoChat THEN requests[d].chat_id
                 ELSE requests[d].telegram_user_id
    IN  /\ calls[p].op = "confirm"
        /\ calls'[p].pc = "done"
        /\ \E m \in mail_log : m.draft_id = d
        /\ requests'[d].status = "sent"
        /\ Confirmed(ResSent) \in returned'[d]
        /\ DOMAIN rate_limits' = DOMAIN rate_limits \cup {scope}
        /\ \A k \in DOMAIN rate_limits : k # scope => rate_limits'[k] = rate_limits[k]

C15_CooldownEntryOnlyOnSent ==
    [][rate_limits' # rate_limits => \E p \in Procs : C15_Upserts(p)]_vars

\* the entry of a group chat written by the confirm that sent its draft
C15_Witness ==
    \E d \in DOMAIN requests :
        /\ requests[d].chat_id # NoChat
        /\ requests[d].status = "sent"
        /\ requests[d].chat_id \in DOMAIN rate_limits

\* C16: within one confirm call the claim, the gate, the increment and the
\* number are committed in one step before the render starts (until then the
\* call holds the row lock and nothing of it is visible); the render and the
\* send run with no transaction of the call open and write nothing; status
\* sent or failed is written by a later step of a call whose render (and,
\* for sent, whose send) has returned.
InClaimingTx(p) == calls[p].pc \in {"gate", "sequence"}
OutsideTx(p) == calls[p].pc \in {"render", "send", "excel_failed", "smtp_failed", "finalize"}

C16_Positions ==
    \A p \in Procs :
        /\ InClaimingTx(p) =>
               /\ row_lock[calls[p].draft_id] = p
               /\ requests[calls[p].draft_id].status = "draft"
               /\ render_calls[calls[p].draft_id] = 0
        /\ OutsideTx(p) =>
               /\ \A d \in DraftIds : row_lock[d] # p
               /\ requests[calls[p].draft_id].counter > 0
               /\ requests[calls[p].draft_id].request_number # NoNumber
        /\ calls[p].pc \in {"excel_failed", "send"} => render_calls[calls[p].draft_id] = 1
        /\ calls[p].pc \in {"smtp_failed", "finalize", "upsert"} =>
               send_calls[calls[p].draft_id] = 1

C16_Steps ==
    /\ \A p \in Procs :
           LET d == calls[p].draft_id
           IN  /\ (calls'[p].pc = "render" /\ calls[p].pc # "render") =>
                      /\ calls[p].pc = "sequence"
                      /\ requests[d].counter = 0
                      /\ requests'[d].status = "sending"
                      /\ requests'[d].counter > 0
                      /\ requests'[d].request_number # NoNumber
                      /\ counters' # counters
                      /\ row_lock'[d] = 0
                      /\ render_calls' = render_calls
               /\ (calls[p].pc \in {"render", "send"} /\ calls'[p] # calls[p]) =>
                      /\ store' = store
                      /\ row_lock' = row_lock
                      /\ calls'[p].pc \in {"send", "excel_failed", "smtp_failed", "finalize"}
    /\ \A d \in DOMAIN requests :
           (requests'[d].status # requests[d].status
              /\ requests'[d].status \in {"sent", "failed"}) =>
               \E p \in Procs :
                   /\ calls[p].draft_id = d
                   /\ calls[p].pc \in {"excel_failed", "smtp_failed", "finalize", "upsert"}
                   /\ calls'[p].pc = "done"
                   /\ render_calls'[d] = render_calls[d]
                   /\ send_calls'[d] = send_calls[d]

C16_StepsOrdered == [](C16_Positions) /\ [][C16_Steps]_vars

\* a call between its send and its final transaction: the number committed,
\* the draft in sending, no lock held
C16_Witness ==
    \E p \in Procs :
        /\ calls[p].pc = "finalize"
        /\ requests[calls[p].draft_id].status = "sending"
        /\ requests[calls[p].draft_id].counter = 1
        /\ row_lock[calls[p].draft_id] = 0

\* C17: a confirm call that has passed the cooldown gate ends with its draft
\* in status sent or failed.
C17_RunsToCompletion ==
    [][\A p \in Procs :
          (/\ calls[p].pc \in {"sequence", "render", "send", "excel_failed",
                               "smtp_failed", "finalize", "upsert"}
           /\ calls'[p].pc \in {"done", "raised"})
          => requests'[calls[p].draft_id].status \in {"sent", "failed"}]_vars

\* C18: a confirm whose claim fails writes nothing, calls nothing and returns
\* ok = False with "not found" for an unknown draft id, "no access" for a
\* caller who is not the requester (in every status), "start a new request"
\* for a failed draft and "already processed" for sending, sent, cancelled.
C18_Expected(d, u) ==
    IF d \notin DOMAIN requests THEN MSG_NOT_FOUND
    ELSE IF requests[d].telegram_user_id # u THEN MSG_NO_ACCESS
    ELSE CASE requests[d].status = "failed" -> MSG_START_NEW
           [] requests[d].status \in {"sending", "sent", "cancelled"} -> MSG_ALREADY
           [] OTHER -> "claimed"

C18_FailedClaimReports ==
    [][\A p \in Procs, d \in KnownIds, u \in Users :
          (confirm_claim(p, d, u) /\ C18_Expected(d, u) # "claimed")
          => /\ calls'[p].pc = "done"
             /\ store' = store
             /\ row_lock' = row_lock
             /\ work' = work
             /\ ok_returns' = ok_returns
             /\ RereadMessage(d, u) = C18_Expected(d, u)
             /\ (d \in DOMAIN requests /\ requests[d].telegram_user_id = u) =>
                    Confirmed(Result(FALSE, C18_Expected(d, u), FALSE)) \in returned'[d]]_vars

\* a cancelled draft whose requester's confirm came back "already processed"
C18_Witness ==
    \E d \in DOMAIN requests :
        /\ requests[d].status = "cancelled"
        /\ Confirmed(ResAlready) \in returned[d]
        /\ render_calls[d] = 0

\* C19: request_number is null exactly when sequence_counter is 0, otherwise
\* it is built from the draft's own request_date, ps_number (or "???") and
\* counter; an assigned counter and number never change.
C19_Derived ==
    \A d \in DOMAIN requests :
        /\ (requests[d].request_number = NoNumber) <=> (requests[d].counter = 0)
        /\ requests[d].counter # 0 =>
               requests[d].request_number =
                   <<requests[d].request_date,
                     IF requests[d].ps_number = "" THEN "???" ELSE requests[d].ps_number,
                     requests[d].counter>>

C19_Kept ==
    \A d \in DOMAIN requests :
        requests[d].counter # 0 =>
            /\ requests'[d].counter = requests[d].counter
            /\ requests'[d].request_number = requests[d].request_number

C19_NumberDerivedAndStable == [](C19_Derived) /\ [][C19_Kept]_vars

\* a sent draft carrying the second number of its key
C19_Witness ==
    \E d \in DOMAIN requests :
        /\ requests[d].status = "sent"
        /\ requests[d].counter = 2
        /\ requests[d].request_number =
               <<requests[d].request_date, requests[d].ps_number, 2>>

\* C20: no call of confirm or cancel ends with an exception leaving it.
C20_NoExceptionEscapes ==
    \A p \in Procs : calls[p].pc # "raised"

\* ---------------------------------------------- properties of the parser
Called(fn) == pure.fn = fn /\ pure.returned

\* the number a quantity segment stands for, as written
WrittenNumber(q) == IF q.right.sep # "absent" THEN q.right ELSE q.left

\* a line that is a well-formed position: a quantity segment with a number
\* above zero and a name
ValidLine(ln) ==
    /\ ln.drop = ""
    /\ ln.qty.left.sep # "absent"
    /\ WrittenNumber(ln.qty).whole > 0 \/ WrittenNumber(ln.qty).milli > 0
    /\ ln.head.paren \/ \E i \in 1..Len(ln.head.parts) : ln.head.parts[i] # ""

BadLine(ln) == ln.drop = "" /\ ~ValidLine(ln)

WithinCap(text) == text.chars <= 20000

\* C24: parse_materials_message returns at most 25 lines; for V valid lines
\* and nothing else it returns min(V, 25) lines and skipped = max(V - 25, 0).
C24_CapAndSkipped ==
    Called("parse") =>
        /\ Len(pure.out.lines) <= 25
        /\ (WithinCap(pure.arg)
              /\ \A i \in 1..Len(pure.arg.raw) : ValidLine(pure.arg.raw[i])) =>
               LET V == Len(pure.arg.raw)
               IN  /\ Len(pure.out.lines) = IF V < 25 THEN V ELSE 25
                   /\ pure.out.skipped = IF V > 25 THEN V - 25 ELSE 0

\* 30 valid lines have given 25 lines and skipped = 5
C24_Witness ==
    /\ Called("parse")
    /\ Len(pure.arg.raw) = 30
    /\ Len(pure.out.lines) = 25
    /\ pure.out.skipped = 5

\* C25: the lines returned carry line_no 1..N and are the accepted lines of
\* the text in input order, whatever rejected lines lie before or between.
NameWritten(ln) ==
    IF ln.head.paren THEN ln.head.parts[1]
    ELSE Head(SelectSeq(ln.head.parts, LAMBDA x : x # ""))

C25_NumberedInOrder ==
    Called("parse") =>
        /\ \A i \in 1..Len(pure.out.lines) : pure.out.lines[i].line_no = i
        /\ WithinCap(pure.arg) =>
               LET accepted == SelectSeq(pure.arg.raw, ValidLine)
               IN  /\ Len(pure.out.lines) <= Len(accepted)
                   /\ \A i \in 1..Len(pure.out.lines) :
                          /\ pure.out.lines[i].name = NameWritten(accepted[i])
                          /\ pure.out.lines[i].qty =
                                 WrittenNumber(accepted[i].qty).whole * 1000
                                   + WrittenNumber(accepted[i].qty).milli

\* a rejected line first, the accepted line after it numbered 1
C25_Witness ==
    /\ Called("parse")
    /\ Len(pure.arg.raw) = 2
    /\ BadLine(pure.arg.raw[1])
    /\ Len(pure.out.lines) = 1
    /\ pure.out.lines[1].line_no = 1

\* C26: the qty of a line whose quantity is written as a range A-B is the
\* larger of A and B.
C26_RangeUpperBound ==
    (/\ Called("parse")
     /\ Len(pure.arg.raw) = 1
     /\ pure.arg.raw[1].qty.right.sep # "absent"
     /\ Len(pure.out.lines) = 1)
    => LET A == pure.arg.raw[1].qty.left.whole * 1000 + pure.arg.raw[1].qty.left.milli
           B == pure.arg.raw[1].qty.right.whole * 1000 + pure.arg.raw[1].qty.right.milli
       IN  pure.out.lines[1].qty = IF A > B THEN A ELSE B

\* C27: every line returned has qty > 0, and a text whose lines all have a
\* quantity of zero gives no line and one diagnostic per line.
ZeroLine(ln) ==
    /\ ln.drop = ""
    /\ ln.qty.left.sep # "absent"
    /\ WrittenNumber(ln.qty).whole = 0
    /\ WrittenNumber(ln.qty).milli = 0

RemoveAt(seq, i) == SubSeq(seq, 1, i - 1) \o SubSeq(seq, i + 1, Len(seq))

C28_NeverAborts ==
    (Called("parse") /\ WithinCap(pure.arg)) =>
        /\ Len(pure.out.lines) + Len(pure.out.errors) + pure.out.skipped
             = Cardinality({i \in 1..Len(pure.arg.raw) : pure.arg.raw[i].drop = ""})
        /\ \A i \in 1..Len(pure.arg.raw) :
               BadLine(pure.arg.raw[i]) =>
                   parse_materials_message(
                       Text(pure.arg.chars, RemoveAt(pure.arg.raw, i))).lines
                     = pure.out.lines

\* 28 lines, two of them bad: 25 lines, one diagnostic, two skipped
C28_Witness ==
    /\ Called("parse")
    /\ Len(pure.arg.raw) = 28
    /\ Len(pure.out.lines) = 25
    /\ Len(pure.out.errors) = 1
    /\ pure.out.skipped = 2

\* ----------------------------------------- properties of the mail sender
NoCRLF(str) == \A i \in 1..Len(str) : str[i] \notin {"CR", "LF"}
Has(str, ch) == \E i \in 1..Len(str) : str[i] = ch
Without(str, chars) == SelectSeq(str, LAMBDA ch : ch \notin chars)

\* C21: a validation error of send_with_attachment inside confirm leaves the
\* draft in status draft, usable for a later confirm, with no number consumed
\* and no CooldownEntry written for the attempt.
C21_ValidationMutatesNothing ==
    [][\A p \in Procs :
          (/\ calls[p].pc = "smtp_failed"
           /\ calls[p].exc \in {"invalid_recipient", "attachment_too_large"}
           /\ calls'[p].pc = "done")
          => /\ requests'[calls[p].draft_id].status = "draft"
             /\ requests'[calls[p].draft_id].counter = 0
             /\ counter_incs[calls[p].draft_id] = 0
             /\ rate_limits' = rate_limits]_vars

\* C22: aiosmtplib.send is called only if the recipient without CR and LF is
\* not empty and contains "@" and the attachment is at most 10 MiB;
\* otherwise the call raises without it.
C22_Sendable ==
    /\ Without(pure.arg.to_email, {"CR", "LF"}) # <<>>
    /\ Has(pure.arg.to_email, "@")
    /\ pure.arg.attachment_size <= 10485760

C22_ValidatedBeforeTransport ==
    Called("send") =>
        /\ pure.out.transport_called => C22_Sendable
        /\ ~C22_Sendable => (pure.out.raised # "" /\ ~pure.out.transport_called)

\* a recipient made sendable by sanitizing, handed to the transport
C22_Witness ==
    /\ Called("send")
    /\ pure.arg.to_email = <<"CR", "@">>
    /\ pure.arg.attachment_size = 10485760
    /\ pure.out.transport_called

\* C23: To and Subject of the message are the arguments without CR and LF,
\* the file name is the argument without CR, LF and double quote; every
\* other character is kept in order.
C23_HeadersSanitized ==
    (Called("send") /\ pure.out.transport_called) =>
        /\ NoCRLF(pure.out.message.To)
        /\ NoCRLF(pure.out.message.Subject)
        /\ NoCRLF(pure.out.message.filename)
        /\ ~Has(pure.out.message.filename, "QUOTE")
        /\ pure.out.message.To = Without(pure.arg.to_email, {"CR", "LF"})
        /\ pure.out.message.Subject = Without(pure.arg.subject, {"CR", "LF"})
        /\ pure.out.message.filename =
               Without(pure.arg.attachment_filename, {"CR", "LF", "QUOTE"})

\* a subject with a line break and a file name with a quote, both cleaned
C23_Witness ==
    /\ Called("send")
    /\ pure.out.transport_called
    /\ pure.arg.subject = <<"a", "LF">>
    /\ pure.arg.attachment_filename = <<"QUOTE", "a">>
    /\ pure.out.message.Subject = <<"a">>
    /\ pure.out.message.filename = <<"a">>

\* ------------------------------------------------ the frame of a draft
\* the fields of a materials_requests row that identify the draft, with its
\* materials_items
IdentityOf(row) ==
    [telegram_user_id |-> row.telegram_user_id, chat_id |-> row.chat_id,
     request_date |-> row.request_date, ps_number |-> row.ps_number,
     recipient_email |-> row.recipient_email, lines |-> row.lines]

\* C30: once a draft exists, no step of confirm or cancel (or anything else)
\* changes its draft_id, scope, requester, request_date, ps_number, recipient
\* or line items; only status, counter, request_number and the error fields
\* are written.
C30_IdentityFrozen ==
    [][\A d \in DOMAIN requests :
          /\ d \in DOMAIN requests'
          /\ IdentityOf(requests'[d]) = IdentityOf(requests[d])]_vars

\* one draft sent with a number, another cancelled, both as created
C30_Witness ==
    \E d, e \in DOMAIN requests :
        /\ requests[d].status = "sent"
        /\ requests[d].counter > 0
        /\ requests[e].status = "cancelled"
        /\ requests[d].recipient_email = ValidRecipient
        /\ requests[e].recipient_email = ValidRecipient
        /\ requests[d].lines # <<>>
        /\ requests[e].lines # <<>>

\* ------------------------------------- properties of the Excel generator
\* the quantity a number cell stands for, in thousandths
CellQty(cell) == IF cell.type = "int" THEN cell.value * 1000 ELSE cell.value

ScopeOfRow(d) ==
    IF requests[d].chat_id # NoChat THEN requests[d].chat_id
    ELSE requests[d].telegram_user_id

\* the cooldown is running for scope s
WindowOpen(s) ==
    /\ cooldown_minutes > 0
    /\ s \in DOMAIN rate_limits
    /\ now < rate_limits[s] + cooldown_minutes

\* C33: the gate of confirm rejects exactly when cooldown_minutes > 0, the
\* scope has a rate_limits row and now < last_request_at + cooldown_minutes
\* (at last_request_at + cooldown_minutes it passes); check_cooldown allows
\* exactly when the gate would pass; with cooldown_minutes = 0 nothing is
\* ever rejected.
C33_Gate(p) ==
    LET d == calls[p].draft_id
    IN  (calls[p].pc = "gate" /\ calls'[p] # calls[p]) =>
            /\ calls'[p].pc \in {"done", "sequence"}
            /\ (calls'[p].pc = "done") = WindowOpen(ScopeOfRow(d))
            /\ calls'[p].pc = "done" =>
                   /\ Confirmed(ResCooldown) \in returned'[d]
                   /\ d \in gate_rejected'

C33_Allowed ==
    /\ \A s \in Users \cup GroupChats :
           check_cooldown(cooldown_minutes, rate_limits, s, now)[1] = ~WindowOpen(s)
    /\ cooldown_minutes = 0 => gate_rejected = {}

C33_GateExact ==
    [](C33_Allowed) /\ [][\A p \in Procs : C33_Gate(p)]_vars

\* a confirm that passed the gate at exactly last_request_at + cooldown_minutes
C33_Witness ==
    \E p \in Procs :
        /\ calls[p].pc = "sequence"
        /\ cooldown_minutes > 0
        /\ calls[p].scope_id \in DOMAIN rate_limits
        /\ now = rate_limits[calls[p].scope_id] + cooldown_minutes

\* C36: a confirm on a draft of scope S changes only the DailyCounter rows
\* and the rate_limits row of S; drafts of different requesters in one group
\* chat draw their numbers from one counter, and the rate_limits row of the
\* chat is the one that gates each of them.
C36_Frame ==
    /\ \A key \in DOMAIN counters' :
           (key \notin DOMAIN counters \/ counters'[key] # counters[key]) =>
               \E p \in Procs :
                   /\ calls[p].pc = "sequence"
                   /\ key = <<requests[calls[p].draft_id].request_date,
                              ScopeOfRow(calls[p].draft_id)>>
    /\ \A s \in DOMAIN rate_limits' :
           (s \notin DOMAIN rate_limits \/ rate_limits'[s] # rate_limits[s]) =>
               \E p \in Procs :
                   /\ calls[p].pc = "upsert"
                   /\ s = ScopeOfRow(calls[p].draft_id)
    /\ DOMAIN counters \subseteq DOMAIN counters'
    /\ DOMAIN rate_limits \subseteq DOMAIN rate_limits'

C36_Shared ==
    \A d \in DOMAIN requests, e \in DOMAIN requests :
        (/\ d # e
         /\ requests[d].chat_id # NoChat
         /\ requests[d].chat_id = requests[e].chat_id
         /\ requests[d].request_date = requests[e].request_date
         /\ requests[d].counter > 0
         /\ requests[e].counter > 0)
        => /\ requests[d].counter # requests[e].counter
           /\ <<requests[d].request_date, requests[d].chat_id>> \in DOMAIN counters
           /\ counters[<<requests[d].request_date, requests[d].chat_id>>] >= 2

C36_PerScope ==
    [](C36_Shared) /\ [][C36_Frame]_vars

\* two requesters in one group chat numbered 1 and 2, one row for the chat
C36_Witness ==
    \E d \in DOMAIN requests, e \in DOMAIN requests :
        /\ requests[d].telegram_user_id # requests[e].telegram_user_id
        /\ requests[d].chat_id # NoChat
        /\ requests[d].chat_id = requests[e].chat_id
        /\ requests[d].counter = 1
        /\ requests[e].counter = 2
        /\ DOMAIN rate_limits = {requests[d].chat_id}

\* C37: the final transaction of a confirm whose send succeeded always
\* commits: it ends the call with the draft in status sent and a rate_limits
\* row for the scope, also when another draft of the scope is finalized at
\* the same time.
C37_UpsertNeverFails ==
    [][\A p \in Procs :
          (calls[p].pc = "upsert" /\ calls'[p] # calls[p]) =>
              /\ calls'[p].pc = "done"
              /\ requests'[calls[p].draft_id].status = "sent"
              /\ calls[p].scope_id \in DOMAIN rate_limits']_vars

\* C38: a committed row in status sending, sent or failed has counter >= 1
\* and a request_number; a committed row in status draft has counter = 0 and
\* no request_number.
C38_NumberWithClaim ==
    \A d \in DOMAIN requests :
        /\ requests[d].status \in {"sending", "sent", "failed"} =>
               /\ requests[d].counter >= 1
               /\ requests[d].request_number # NoNumber
        /\ requests[d].status = "draft" =>
               /\ requests[d].counter = 0
               /\ requests[d].request_number = NoNumber

\* a numbered draft that was sent next to a draft the gate rolled back
C38_Witness ==
    \E d \in DOMAIN requests, e \in gate_rejected :
        /\ requests[d].status = "sent"
        /\ requests[d].counter = 1
        /\ requests[d].request_number # NoNumber
        /\ requests[e].status = "draft"
        /\ requests[e].counter = 0

\* C39: a draft is in status sent only if the mail transport accepted its
\* one send, in status failed only if its render or its send raised (the
\* transport accepted nothing); ok = True is returned only for a draft whose
\* mail was accepted.
C39_State ==
    \A d \in DOMAIN requests :
        /\ requests[d].status = "sent" =>
               /\ send_calls[d] = 1
               /\ \E m \in mail_log : m.draft_id = d
        /\ requests[d].status = "failed" =>
               /\ render_calls[d] = 1
               /\ \A m \in mail_log : m.draft_id # d
               /\ requests[d].error_code \in {"EXCEL_ERROR", "SMTP_ERROR"}
               /\ requests[d].error_code = "EXCEL_ERROR" => send_calls[d] = 0
               /\ requests[d].error_code = "SMTP_ERROR" => send_calls[d] = 1
        /\ ok_returns[d] > 0 => \E m \in mail_log : m.draft_id = d

C39_Step ==
    \A d \in DOMAIN requests :
        (requests'[d].status = "failed" /\ requests[d].status # "failed") =>
            \E p \in Procs :
                /\ calls[p].draft_id = d
                /\ calls[p].pc \in {"excel_failed", "smtp_failed"}

C39_OutcomeMatchesDispatch ==
    [](C39_State) /\ [][C39_Step]_vars

\* one draft sent after its mail was accepted, one failed after its send raised
C39_Witness ==
    \E d \in DOMAIN requests, e \in DOMAIN requests :
        /\ requests[d].status = "sent"
        /\ ok_returns[d] = 1
        /\ requests[e].status = "failed"
        /\ requests[e].error_code = "SMTP_ERROR"
        /\ send_calls[e] = 1

\* --------------------------------------------------- stuck in sending
\* draft d is committed in status sending and no running call works on it
Stuck(d) ==
    /\ d \in DOMAIN requests
    /\ requests[d].status = "sending"
    /\ InFlight(d) = {}

\* C32: a draft left in sending by a process that died between the claiming
\* transaction and the final status write stays as it is in every later
\* step; a later confirm on it ends at once with ok = False ("already
\* processed" for its requester) and a later cancel with "already
\* processed", and neither writes anything.
C32_Step(d) ==
    /\ Stuck(d) =>
           /\ requests'[d] = requests[d]
           /\ ok_returns'[d] = ok_returns[d]
           /\ render_calls'[d] = render_calls[d]
           /\ send_calls'[d] = send_calls[d]
    /\ \A p \in Procs, u \in Users :
           (Stuck(d) /\ confirm_claim(p, d, u)) =>
               /\ calls'[p].pc = "done"
               /\ store' = store
               /\ u = requests[d].telegram_user_id =>
                      returned'[d] = returned[d] \cup {Confirmed(ResAlready)}
    /\ \A p \in Procs, u \in Users :
           (Stuck(d) /\ cancel_read(p, d, u)) =>
               /\ calls'[p].pc = "done"
               /\ store' = store
               /\ u = requests[d].telegram_user_id =>
                      returned'[d] = returned[d] \cup {Cancelled(ResAlready)}

C32_NoReclaim ==
    [][\A d \in DraftIds : C32_Step(d)]_vars

\* after the crash of a confirm the requester has tried confirm and cancel
C32_Witness ==
    \E d \in DOMAIN requests :
        /\ Stuck(d)
        /\ \E p \in Procs : calls[p].pc = "crashed"
        /\ \A p \in Procs : calls[p].pc \notin {"raised", "idle"}
        /\ {Confirmed(ResAlready), Cancelled(ResAlready)} \subseteq returned[d]

\* ------------------------------------------------------- the keyboard
\* C34: when the cooldown gate has rejected a press of the confirm button,
\* the preview of that draft still carries its buttons.
C34_KeyboardKept ==
    [][\A p \in Procs :
          (calls[p].pc = "gate" /\ calls'[p].pc = "done") =>
              keyboard'[calls[p].draft_id]]_vars

\* -------------------------------------- properties of the resolution
\* the remainder of a line after its first n words is a material list
RestParses(words, n) ==
    parse_materials_message(
        TextOfWords(<<SubSeq(words, n + 1, Len(words))>>)).lines # <<>>

\* the prefixes of a single line that qualify as the object
Eligible(words, hits) ==
    {n \in 2..6 : /\ n <= Len(words) - 1
                  /\ SubSeq(words, 1, n) \in hits
                  /\ RestParses(words, n)}

Longest(set) == CHOOSE n \in set : \A k \in set : k <= n

\* C35: with two or more non-empty lines the first line is the object query
\* and the other lines are the material list; with one line the object is
\* found by the longest prefix of 2..min(6, words - 1) words that has a
\* candidate and whose remainder parses to at least one line, the remainder
\* being the material list; otherwise (no candidate, fewer than 3 words, an
\* empty message) the hard error is returned and no object.
C35_Resolution ==
    Called("resolve") =>
        LET raw == SelectSeq(pure.arg.lines, LAMBDA ln : ln # <<>>)
            hits == pure.arg.hits
            out == pure.out
        IN  IF Len(raw) >= 2
            THEN IF raw[1] \in hits
                 THEN /\ out.hard_error = ""
                      /\ out.obj = [found_by |-> raw[1]]
                      /\ out.lines_text = Tail(raw)
                 ELSE out.hard_error # "" /\ out.obj = NoObject
            ELSE IF Len(raw) = 1 /\ Len(raw[1]) >= 3 /\ Eligible(raw[1], hits) # {}
            THEN LET n == Longest(Eligible(raw[1], hits))
                 IN  /\ out.hard_error = ""
                     /\ out.obj = [found_by |-> SubSeq(raw[1], 1, n)]
                     /\ out.lines_text = <<SubSeq(raw[1], n + 1, Len(raw[1]))>>
            ELSE out.hard_error # "" /\ out.obj = NoObject

\* "ps 55 pipe pipe pipe 5m" with candidates for "ps 55" and "ps 55 pipe": the
\* longer prefix is the object
C35_Witness ==
    /\ Called("resolve")
    /\ pure.arg.lines = <<PS55 \o <<Word("pipe"), Word("pipe")>> \o PipeLine>>
    /\ pure.arg.hits = {PS55, PS55 \o <<Word("pipe")>>}
    /\ pure.out.obj = [found_by |-> PS55 \o <<Word("pipe")>>]
    /\ pure.out.lines_text = <<<<Word("pipe")>> \o PipeLine>>

\* ------------------------------------------ properties of a quantity
\* the thousandths a Decimal amounts to, when it has no digit beyond them
Thousandths(d) == d.whole * 1000 + Milli(d.frac)
FitsThousandths(d) == \A i \in 4..Len(d.frac) : d.frac[i] = 0

\* C31: for every quantity the parser accepts, the value stored with the
\* draft and the value rendered into the artifact equal the value entered:
\* the INSERT succeeds, no digit entered is lost, and the cell holds the
\* same number.
C31_QtyExact ==
    Called("qty") =>
        /\ pure.out.qty = to_decimal(pure.arg)
        /\ ~pure.out.stored.raised
        /\ FitsThousandths(pure.out.qty)
        /\ pure.out.stored.whole * 1000 + pure.out.stored.milli
               = Thousandths(pure.out.qty)
        /\ pure.out.cell # <<>> => CellQty(pure.out.cell) = Thousandths(pure.out.qty)
====
